---- MODULE Spec2Model ----
(***************************************************************************)
(* A model of the question lifecycle engine of prediction_app:             *)
(*   - storage (database/db_manager.py over database/models.py),           *)
(*   - question delivery (api/main.py, managers/prediction_manager.py),    *)
(*   - the resolution sweep (resolvers/question_resolver.py),              *)
(*   - question synthesis and validation (agents/question_generator.py).   *)
(* Timestamps are abstracted to "set" (TRUE) / "NULL" (FALSE).             *)
(***************************************************************************)
EXTENDS Integers, Sequences, FiniteSets, Bags, TLC

\* ------------------------------------------------------------------ bounds

\* Largest number of rows of the questions table.
MaxQuestions == 2
\* Largest count a caller asks for.
MaxCount == 2
\* Largest number of calls of generate_question and
\* generate_multiple_questions on one generator.
MaxGenerations == 1

UserIds == {1, 2}
QIds == 1..MaxQuestions
Counts == 0..MaxCount

\* Topic strings; "Cricket" is a spelling of "cricket" that differs in case.
Topics == {"cricket", "Cricket", "football"}

\* str.lower() on the topic strings of the model.
Lower(t) == IF t = "Cricket" THEN "cricket" ELSE t

\* The values of the API's ResponseEnum (the PATCH body).
ResponseEnum == {"yes", "no", "skip"}
\* The values of the column type Enum(ResponseEnum) of the storage layer.
DbResponseEnum == {"yes", "no", "ignore"}

NULL == "NULL"
NoCall == [op |-> "none"]

VARIABLES
    questions,   \* the questions table: row i has primary key i
    users,       \* users table: user id -> interests (a list)
    exposures,   \* the user_question_responses table, a bag of rows
    lastCall,    \* the last call of a reading operation and what it returned
    req,         \* in-flight requests (get_fresh_questions / GET /questions/)
    sweep,       \* the resolution sweep of the scheduler
    gen          \* the question generator: its pools and its last call

storeVars == <<questions, users, exposures, lastCall, req>>
resolverVars == <<sweep>>
generatorVars == <<gen>>
vars == <<storeVars, resolverVars, generatorVars>>

\* ----------------------------------------------------------------- storage

\* Question(...) with the column defaults: resolved_at, outcome and
\* resolution_note are nullable and start NULL.
Question(question_text, interest) ==
    [question_text |-> question_text, interest |-> interest,
     resolved_at |-> FALSE, outcome |-> NULL, resolution_note |-> NULL]

\* UserQuestionResponse(user_id, question_id, viewed_at=now)
UserQuestionResponse(user_id, question_id) ==
    [user_id |-> user_id, question_id |-> question_id,
     viewed_at |-> TRUE, answered_at |-> FALSE, response |-> NULL]

RowsOf(tbl, user_id, question_id) ==
    {r \in BagToSet(tbl) : r.user_id = user_id /\ r.question_id = question_id}

uq_user_question_off(tbl, user_id, question_id) == FALSE

\* UniqueConstraint('user_id', 'question_id'): TRUE when inserting a row for
\* the pair would violate it (the commit raises IntegrityError).
uq_user_question(tbl, user_id, question_id) ==
    RowsOf(tbl, user_id, question_id) # {}

AddAndCommit_always(tbl, row) == tbl (+) SetToBag({row})

\* session.add(row); session.commit() with the except-branch's rollback:
\* the table after the call.
AddAndCommit(tbl, row) ==
    IF uq_user_question(tbl, row.user_id, row.question_id)
    THEN tbl
    ELSE tbl (+) SetToBag({row})

\* The table after mark_question_as_viewed(question_id, user_id).
mark_question_as_viewed(tbl, question_id, user_id) ==
    AddAndCommit(tbl, UserQuestionResponse(user_id, question_id))

\* What the Enum column does with a response value at flush: a member of the
\* column's enum is stored; any other string is handed to the backend, which
\* stores it (no CHECK constraint) or rejects the statement (native enum).
ResponseStored(response, backendAccepts) ==
    response \in DbResponseEnum \/ backendAccepts

\* The backends' answers that matter for a response value.
BackendChoices(response) ==
    IF response \in DbResponseEnum THEN {TRUE} ELSE BOOLEAN

\* The table after update_question_response found `row` (.first()) and set
\* its response and answered_at.
UpdateRow(tbl, row, response) ==
    (tbl (-) SetToBag({row}))
        (+) SetToBag({[row EXCEPT !.response = response, !.answered_at = TRUE]})

\* The subquery restricted to the rows that carry a response.
responded_question_ids_answered(user_id) ==
    {r.question_id : r \in {x \in BagToSet(exposures) :
                               x.user_id = user_id /\ x.response # NULL}}

\* session.query(UserQuestionResponse.question_id)
\*     .filter(UserQuestionResponse.user_id == user_id)
responded_question_ids(user_id) ==
    {r.question_id : r \in {x \in BagToSet(exposures) : x.user_id = user_id}}

\* .filter(Question.interest == interest)
InterestFilter(q, interest) == questions[q].interest = interest

\* The query of get_unused_question: the questions of `interest` whose id is
\* not in the subquery of the user's rows.
UnusedIds(interest, user_id) ==
    {q \in 1..Len(questions) :
        /\ InterestFilter(q, interest)
        /\ q \notin responded_question_ids(user_id)}

\* What get_unused_question can return (ORDER BY random(), .first()): one
\* eligible question, as the set of its id, or None, as the empty set.
get_unused_question(interest, user_id) ==
    IF UnusedIds(interest, user_id) = {}
    THEN {{}}
    ELSE {{q} : q \in UnusedIds(interest, user_id)}

\* The query of get_multiple_unused_questions before ORDER BY and LIMIT: the
\* NOT IN filter is added only when the user has rows.
MultipleUnusedIds(interest, user_id) ==
    {q \in 1..Len(questions) :
        /\ InterestFilter(q, interest)
        /\ (responded_question_ids(user_id) # {}
                => q \notin responded_question_ids(user_id))}

\* .limit(count) on a result of `size` rows, count >= 0.
Limit(size, count) == IF size < count THEN size ELSE count

\* interest = str(interest).lower()
Sanitize(t) == Lower(t)

\* What get_multiple_unused_questions can return: any choice of
\* min(count, eligible) eligible questions (ORDER BY random() LIMIT count),
\* as a set of ids.
get_multiple_unused_questions(interest, user_id, count) ==
    LET eligible == MultipleUnusedIds(Sanitize(interest), user_id)
    IN {S \in SUBSET eligible : Cardinality(S) = Limit(Cardinality(eligible), count)}

\* -------------------------------------------------------- storage actions

\* db_manager.create_question, with the text drawn from `texts` and the
\* interest from `topics`
CreateQuestion(texts, topics) ==
    /\ Len(questions) < MaxQuestions
    /\ \E question_text \in texts, interest \in topics :
         questions' = Append(questions, Question(question_text, interest))
    /\ lastCall' = NoCall
    /\ UNCHANGED <<users, exposures, req, resolverVars, generatorVars>>

\* db_manager.mark_question_as_viewed
MarkQuestionAsViewed ==
    \E u \in UserIds, q \in 1..Len(questions) :
        /\ exposures' = mark_question_as_viewed(exposures, q, u)
        /\ lastCall' = NoCall
        /\ UNCHANGED <<questions, users, req, resolverVars, generatorVars>>

\* The table after update_question_response(question_id, user_id, response);
\* without a row for the pair the constructor call with responded_at raises
\* TypeError before anything is added.
update_question_response(tbl, question_id, user_id, response, backendAccepts) ==
    IF RowsOf(tbl, user_id, question_id) # {}
    THEN IF ResponseStored(response, backendAccepts)
         THEN UpdateRow(tbl, CHOOSE r \in RowsOf(tbl, user_id, question_id) : TRUE,
                        response)
         ELSE tbl
    ELSE tbl

\* What update_question_response raises to its caller: SQLAlchemyError is
\* caught inside (rollback), the TypeError of the constructor call is not.
UpdateRaises(tbl, question_id, user_id) ==
    IF RowsOf(tbl, user_id, question_id) # {} THEN NULL ELSE "TypeError"

\* The record of a writing call: only a call that raised leaves one.
Outcome(op, raised) ==
    IF raised = NULL THEN NoCall ELSE [op |-> op, raised |-> raised]

\* db_manager.update_question_response
UpdateQuestionResponse ==
    \E u \in UserIds, q \in 1..Len(questions), r \in ResponseEnum :
      \E backendAccepts \in BackendChoices(r) :
        /\ exposures' = update_question_response(exposures, q, u, r, backendAccepts)
        /\ lastCall' = Outcome("update_question_response",
                                UpdateRaises(exposures, q, u))
        /\ UNCHANGED <<questions, users, req, resolverVars, generatorVars>>

\* PATCH /questions/{question_id}/ : mark as viewed, then record the response.
PatchQuestion ==
    \E u \in UserIds, q \in 1..Len(questions), r \in ResponseEnum :
      \E backendAccepts \in BackendChoices(r) :
        LET viewed == mark_question_as_viewed(exposures, q, u)
        IN /\ exposures' = update_question_response(viewed, q, u, r, backendAccepts)
           /\ lastCall' = Outcome("PATCH", UpdateRaises(viewed, q, u))
           /\ UNCHANGED <<questions, users, req, resolverVars, generatorVars>>

\* db_manager.get_unused_question
GetUnusedQuestion ==
    \E u \in UserIds, t \in Topics :
        \E S \in get_unused_question(t, u) :
            /\ lastCall' = [op |-> "get_unused_question", user |-> u,
                            interest |-> t, count |-> 1, result |-> S]
            /\ UNCHANGED <<questions, users, exposures, req, resolverVars, generatorVars>>

\* db_manager.get_multiple_unused_questions
GetMultipleUnusedQuestions ==
    \E u \in UserIds, t \in Topics, n \in Counts :
        \E S \in get_multiple_unused_questions(t, u, n) :
            /\ lastCall' = [op |-> "get_multiple_unused_questions", user |-> u,
                            interest |-> t, count |-> n, result |-> S]
            /\ UNCHANGED <<questions, users, exposures, req, resolverVars, generatorVars>>

\* --------------------------------------------------------------- delivery

Requests == {1, 2}

SeqToSet(s) == {s[i] : i \in 1..Len(s)}

\* A request slot: pc "idle" is no request in flight.
\*   kind      which entry point started it
\*   count     the count get_fresh_questions was called with
\*   interests self.interests, read when PredictionManager is constructed
\*   used      used_interests
\*   interest  the interest of the current loop iteration
\*   batch     unused_questions not yet iterated over
\*   results   the ids of the questions appended to results
\*   raised    the exception the request ended with
IdleReq ==
    [pc |-> "idle", kind |-> NULL, user |-> 0, count |-> 0, interests |-> {},
     used |-> {}, interest |-> NULL, batch |-> {}, results |-> {},
     raised |-> NULL]

\* PredictionManager(username).get_fresh_questions(count) entered.
FreshReq(kind, user_id, count) ==
    [IdleReq EXCEPT !.pc = IF SeqToSet(users[user_id]) = {} THEN "returned"
                           ELSE "select",
                    !.kind = kind, !.user = user_id, !.count = count,
                    !.interests = SeqToSet(users[user_id])]

\* The first part of fetch_questions: for each interest, in order,
\* get_multiple_unused_questions(interest, user, count - len(questions)),
\* stopping once count questions are collected. The set of lists it can
\* build, each as the set of its ids, from position i of the interests on.
RECURSIVE CollectUnused(_, _, _, _, _)
CollectUnused(interests, i, user_id, count, acc) ==
    IF i > Len(interests) \/ Cardinality(acc) >= count
    THEN {acc}
    ELSE UNION {CollectUnused(interests, i + 1, user_id, count, acc \cup S) :
                S \in get_multiple_unused_questions(
                          interests[i], user_id, count - Cardinality(acc))}

\* GET /questions/ with enough unseen questions in storage answers with
\* them; nothing is written.
FetchQuestionsStored(r) ==
    \E u \in UserIds, count \in 1..MaxCount :
        \E qs \in CollectUnused(users[u], 1, u, count, {}) :
            /\ req[r].pc = "idle"
            /\ Cardinality(qs) >= count
            /\ lastCall' = [op |-> "fetch_questions", user |-> u,
                            interest |-> NULL, count |-> count, result |-> qs]
            /\ UNCHANGED <<questions, users, exposures, req, resolverVars, generatorVars>>

\* GET /questions/ with too few unseen questions asks
\* manager.get_fresh_questions(needed_count) for the rest.
FetchQuestionsFresh(r) ==
    \E u \in UserIds, count \in 1..MaxCount :
        \E qs \in CollectUnused(users[u], 1, u, count, {}) :
            /\ req[r].pc = "idle"
            /\ Cardinality(qs) < count
            /\ req' = [req EXCEPT ![r] =
                         FreshReq("fetch_questions", u, count - Cardinality(qs))]
            /\ lastCall' = NoCall
            /\ UNCHANGED <<questions, users, exposures, resolverVars, generatorVars>>

\* A direct call of get_fresh_questions(count).
GetFreshQuestions(r) ==
    \E u \in UserIds, count \in 1..MaxCount :
        /\ req[r].pc = "idle"
        /\ req' = [req EXCEPT ![r] = FreshReq("get_fresh_questions", u, count)]
        /\ lastCall' = NoCall
        /\ UNCHANGED <<questions, users, exposures, resolverVars, generatorVars>>

\* list(self.interests - used_interests) or list(self.interests)
available_interests(rq) ==
    IF rq.interests \ rq.used # {} THEN rq.interests \ rq.used ELSE rq.interests

\* One pass of the while loop up to the query: pick an interest, read the
\* unused questions for it.
SelectUnused(r) ==
    /\ req[r].pc = "select"
    /\ \E interest \in available_interests(req[r]) :
         \E S \in get_multiple_unused_questions(
                      interest, req[r].user,
                      req[r].count - Cardinality(req[r].results)) :
            req' = [req EXCEPT ![r].interest = interest,
                               ![r].used = @ \cup {interest},
                               ![r].batch = S,
                               ![r].pc = IF S = {} THEN "generate" ELSE "mark"]
    /\ UNCHANGED <<questions, users, exposures, lastCall, resolverVars, generatorVars>>

\* One iteration of `for q in unused_questions`: the question is marked as
\* viewed and appended to results, whatever the insert did.
MarkUnused(r) ==
    /\ req[r].pc = "mark"
    /\ \E q \in req[r].batch :
         /\ exposures' = mark_question_as_viewed(exposures, q, req[r].user)
         /\ req' = [req EXCEPT ![r].batch = @ \ {q},
                               ![r].results = @ \cup {q},
                               ![r].pc = IF req[r].batch = {q}
                                         THEN "generate" ELSE "mark"]
    /\ UNCHANGED <<questions, users, lastCall, resolverVars, generatorVars>>

\* scrape_news returns its mock articles or the four generic headlines:
\* never an empty list.
scrape_news_empty == FALSE

\* The rest of the loop body and the loop exit. With results still short,
\* the articles are not empty and generate_multiple_questions is called
\* without its `sources` argument: TypeError. With results complete the loop
\* ends and get_fresh_questions returns; fetch_questions then reads
\* q["source_links"], a key the results do not have: KeyError.
GenerateOrReturn(r) ==
    /\ req[r].pc = "generate"
    /\ req' = [req EXCEPT ![r] =
         IF Cardinality(req[r].results) < req[r].count
         THEN IF scrape_news_empty
              THEN [@ EXCEPT !.pc = "select"]
              ELSE [@ EXCEPT !.pc = "raised", !.raised = "TypeError"]
         ELSE IF req[r].kind = "fetch_questions"
              THEN [@ EXCEPT !.pc = "raised", !.raised = "KeyError"]
              ELSE [@ EXCEPT !.pc = "returned"]]
    /\ UNCHANGED <<questions, users, exposures, lastCall, resolverVars, generatorVars>>

\* The caller is done with the answer; the slot is free again.
Finish(r) ==
    /\ req[r].pc \in {"returned", "raised"}
    /\ req' = [req EXCEPT ![r] = IdleReq]
    /\ UNCHANGED <<questions, users, exposures, lastCall, resolverVars, generatorVars>>

\* ------------------------------------------- resolution: the texts

\* The question texts of the model.
QuestionTexts ==
    {"Will Apple launch iPhone 16 tomorrow?",
     "Will Haaland score 2 goals tomorrow?",
     "Will Haaland score three goals tomorrow?",
     "Will Lakers beat Celtics tomorrow?",
     "Will Kohli hit a century tomorrow?",
     "Will Djokovic score more than Nadal tomorrow?",
     "Will Senate pass the climate bill tomorrow?",
     "Who will win first, Djokovic or Nadal?"}

\* What _search_news can return in the model: lists of article descriptions
\* (NULL: an article whose description is null); the empty list is also
\* what it returns without an API key or when the request fails.
SearchResults ==
    {<<>>,
     <<"Apple officially launched the iPhone 16 today">>,
     <<"Apple delayed the iPhone 16.">>,
     <<"Apple announced the iPhone 16.">>,
     <<"Apple announced the iPhone 16. Apple cancelled the iPhone 16.">>,
     <<"Haaland scored 2 goals.">>,
     <<"Haaland scored 2 goals. Haaland netted 3 goals.", "Haaland scored 1 goals.">>,
     <<NULL>>,
     <<"The weather was fine today.">>,
     <<"Kohli scored 82 runs. Kohli hit his century.">>,
     <<"Kohli scored 82 runs.">>,
     <<"Djokovic scored more points than Nadal.">>,
     <<"Djokovic won and beat Nadal with a better score.">>,
     <<"Nadal lost and missed the score against Djokovic.">>,
     <<"Senate passed the climate bill.">>,
     <<"Senate rejected the climate bill.">>}

\* self.nlp(text) for the texts of the model (spaCy's analysis is given):
\* the token texts, the texts of the tokens with like_num, doc.ents as
\* (text, label_) pairs, and doc.sents as (text, first token, last token).
nlp ==
    "Will Apple launch iPhone 16 tomorrow?" :>
        [tokens |-> <<"Will", "Apple", "launch", "iPhone", "16", "tomorrow", "?">>,
         like_num |-> <<"16">>,
         ents |-> <<[text |-> "Apple", label_ |-> "ORG"], [text |-> "tomorrow", label_ |-> "DATE"]>>,
         sents |-> <<[text |-> "Will Apple launch iPhone 16 tomorrow?", start |-> 1, end |-> 7]>>]
    @@ "Will Haaland score 2 goals tomorrow?" :>
        [tokens |-> <<"Will", "Haaland", "score", "2", "goals", "tomorrow", "?">>,
         like_num |-> <<"2">>,
         ents |-> <<[text |-> "Haaland", label_ |-> "PERSON"], [text |-> "tomorrow", label_ |-> "DATE"]>>,
         sents |-> <<[text |-> "Will Haaland score 2 goals tomorrow?", start |-> 1, end |-> 7]>>]
    @@ "Will Haaland score three goals tomorrow?" :>
        [tokens |-> <<"Will", "Haaland", "score", "three", "goals", "tomorrow", "?">>,
         like_num |-> <<"three">>,
         ents |-> <<[text |-> "Haaland", label_ |-> "PERSON"], [text |-> "tomorrow", label_ |-> "DATE"]>>,
         sents |-> <<[text |-> "Will Haaland score three goals tomorrow?", start |-> 1, end |-> 7]>>]
    @@ "Will Lakers beat Celtics tomorrow?" :>
        [tokens |-> <<"Will", "Lakers", "beat", "Celtics", "tomorrow", "?">>,
         like_num |-> <<>>,
         ents |-> <<[text |-> "Lakers", label_ |-> "ORG"], [text |-> "Celtics", label_ |-> "ORG"], [text |-> "tomorrow", label_ |-> "DATE"]>>,
         sents |-> <<[text |-> "Will Lakers beat Celtics tomorrow?", start |-> 1, end |-> 6]>>]
    @@ "Will Kohli hit a century tomorrow?" :>
        [tokens |-> <<"Will", "Kohli", "hit", "a", "century", "tomorrow", "?">>,
         like_num |-> <<>>,
         ents |-> <<[text |-> "Kohli", label_ |-> "PERSON"], [text |-> "tomorrow", label_ |-> "DATE"]>>,
         sents |-> <<[text |-> "Will Kohli hit a century tomorrow?", start |-> 1, end |-> 7]>>]
    @@ "Will Djokovic score more than Nadal tomorrow?" :>
        [tokens |-> <<"Will", "Djokovic", "score", "more", "than", "Nadal", "tomorrow", "?">>,
         like_num |-> <<>>,
         ents |-> <<[text |-> "Djokovic", label_ |-> "PERSON"], [text |-> "Nadal", label_ |-> "PERSON"], [text |-> "tomorrow", label_ |-> "DATE"]>>,
         sents |-> <<[text |-> "Will Djokovic score more than Nadal tomorrow?", start |-> 1, end |-> 8]>>]
    @@ "Will Senate pass the climate bill tomorrow?" :>
        [tokens |-> <<"Will", "Senate", "pass", "the", "climate", "bill", "tomorrow", "?">>,
         like_num |-> <<>>,
         ents |-> <<[text |-> "Senate", label_ |-> "ORG"], [text |-> "tomorrow", label_ |-> "DATE"]>>,
         sents |-> <<[text |-> "Will Senate pass the climate bill tomorrow?", start |-> 1, end |-> 8]>>]
    @@ "Who will win first, Djokovic or Nadal?" :>
        [tokens |-> <<"Who", "will", "win", "first", ",", "Djokovic", "or", "Nadal", "?">>,
         like_num |-> <<>>,
         ents |-> <<[text |-> "Djokovic", label_ |-> "PERSON"], [text |-> "Nadal", label_ |-> "PERSON"]>>,
         sents |-> <<[text |-> "Who will win first, Djokovic or Nadal?", start |-> 1, end |-> 9]>>]
    @@ "Will Djokovic score more than Nadal first?" :>
        [tokens |-> <<"Will", "Djokovic", "score", "more", "than", "Nadal", "first", "?">>,
         like_num |-> <<>>,
         ents |-> <<[text |-> "Djokovic", label_ |-> "PERSON"], [text |-> "Nadal", label_ |-> "PERSON"]>>,
         sents |-> <<[text |-> "Will Djokovic score more than Nadal first?", start |-> 1, end |-> 8]>>]
    @@ "Will Djokovic and Nadal both win before Sunday?" :>
        [tokens |-> <<"Will", "Djokovic", "and", "Nadal", "both", "win", "before", "Sunday", "?">>,
         like_num |-> <<>>,
         ents |-> <<[text |-> "Djokovic", label_ |-> "PERSON"], [text |-> "Nadal", label_ |-> "PERSON"], [text |-> "Sunday", label_ |-> "DATE"]>>,
         sents |-> <<[text |-> "Will Djokovic and Nadal both win before Sunday?", start |-> 1, end |-> 9]>>]
    @@ "Will both Djokovic and Nadal score exactly 2 points?" :>
        [tokens |-> <<"Will", "both", "Djokovic", "and", "Nadal", "score", "exactly", "2", "points", "?">>,
         like_num |-> <<"2">>,
         ents |-> <<[text |-> "Djokovic", label_ |-> "PERSON"], [text |-> "Nadal", label_ |-> "PERSON"]>>,
         sents |-> <<[text |-> "Will both Djokovic and Nadal score exactly 2 points?", start |-> 1, end |-> 10]>>]
    @@ "Will Djokovic score exactly 2 points?" :>
        [tokens |-> <<"Will", "Djokovic", "score", "exactly", "2", "points", "?">>,
         like_num |-> <<"2">>,
         ents |-> <<[text |-> "Djokovic", label_ |-> "PERSON"]>>,
         sents |-> <<[text |-> "Will Djokovic score exactly 2 points?", start |-> 1, end |-> 7]>>]
    @@ "Will both Djokovic and Nadal score exactly 2 points more than before?" :>
        [tokens |-> <<"Will", "both", "Djokovic", "and", "Nadal", "score", "exactly", "2", "points", "more", "than", "before", "?">>,
         like_num |-> <<"2">>,
         ents |-> <<[text |-> "Djokovic", label_ |-> "PERSON"], [text |-> "Nadal", label_ |-> "PERSON"]>>,
         sents |-> <<[text |-> "Will both Djokovic and Nadal score exactly 2 points more than before?", start |-> 1, end |-> 13]>>]
    @@ "Apple officially launched the iPhone 16 today" :>
        [tokens |-> <<"Apple", "officially", "launched", "the", "iPhone", "16", "today">>,
         like_num |-> <<>>,
         ents |-> <<>>,
         sents |-> <<[text |-> "Apple officially launched the iPhone 16 today", start |-> 1, end |-> 7]>>]
    @@ "Apple delayed the iPhone 16." :>
        [tokens |-> <<"Apple", "delayed", "the", "iPhone", "16", ".">>,
         like_num |-> <<>>,
         ents |-> <<>>,
         sents |-> <<[text |-> "Apple delayed the iPhone 16.", start |-> 1, end |-> 6]>>]
    @@ "Apple announced the iPhone 16." :>
        [tokens |-> <<"Apple", "announced", "the", "iPhone", "16", ".">>,
         like_num |-> <<>>,
         ents |-> <<>>,
         sents |-> <<[text |-> "Apple announced the iPhone 16.", start |-> 1, end |-> 6]>>]
    @@ "Apple announced the iPhone 16. Apple cancelled the iPhone 16." :>
        [tokens |-> <<"Apple", "announced", "the", "iPhone", "16", ".", "Apple", "cancelled", "the", "iPhone", "16", ".">>,
         like_num |-> <<>>,
         ents |-> <<>>,
         sents |-> <<[text |-> "Apple announced the iPhone 16.", start |-> 1, end |-> 6],
                    [text |-> "Apple cancelled the iPhone 16.", start |-> 7, end |-> 12]>>]
    @@ "Haaland scored 2 goals." :>
        [tokens |-> <<"Haaland", "scored", "2", "goals", ".">>,
         like_num |-> <<>>,
         ents |-> <<>>,
         sents |-> <<[text |-> "Haaland scored 2 goals.", start |-> 1, end |-> 5]>>]
    @@ "Haaland scored 2 goals. Haaland netted 3 goals." :>
        [tokens |-> <<"Haaland", "scored", "2", "goals", ".", "Haaland", "netted", "3", "goals", ".">>,
         like_num |-> <<>>,
         ents |-> <<>>,
         sents |-> <<[text |-> "Haaland scored 2 goals.", start |-> 1, end |-> 5],
                    [text |-> "Haaland netted 3 goals.", start |-> 6, end |-> 10]>>]
    @@ "Haaland scored 1 goals." :>
        [tokens |-> <<"Haaland", "scored", "1", "goals", ".">>,
         like_num |-> <<>>,
         ents |-> <<>>,
         sents |-> <<[text |-> "Haaland scored 1 goals.", start |-> 1, end |-> 5]>>]
    @@ "The weather was fine today." :>
        [tokens |-> <<"The", "weather", "was", "fine", "today", ".">>,
         like_num |-> <<>>,
         ents |-> <<>>,
         sents |-> <<[text |-> "The weather was fine today.", start |-> 1, end |-> 6]>>]
    @@ "Kohli scored 82 runs. Kohli hit his century." :>
        [tokens |-> <<"Kohli", "scored", "82", "runs", ".", "Kohli", "hit", "his", "century", ".">>,
         like_num |-> <<>>,
         ents |-> <<>>,
         sents |-> <<[text |-> "Kohli scored 82 runs.", start |-> 1, end |-> 5],
                    [text |-> "Kohli hit his century.", start |-> 6, end |-> 10]>>]
    @@ "Kohli scored 82 runs." :>
        [tokens |-> <<"Kohli", "scored", "82", "runs", ".">>,
         like_num |-> <<>>,
         ents |-> <<>>,
         sents |-> <<[text |-> "Kohli scored 82 runs.", start |-> 1, end |-> 5]>>]
    @@ "Djokovic scored more points than Nadal." :>
        [tokens |-> <<"Djokovic", "scored", "more", "points", "than", "Nadal", ".">>,
         like_num |-> <<>>,
         ents |-> <<>>,
         sents |-> <<[text |-> "Djokovic scored more points than Nadal.", start |-> 1, end |-> 7]>>]
    @@ "Djokovic won and beat Nadal with a better score." :>
        [tokens |-> <<"Djokovic", "won", "and", "beat", "Nadal", "with", "a", "better", "score", ".">>,
         like_num |-> <<>>,
         ents |-> <<>>,
         sents |-> <<[text |-> "Djokovic won and beat Nadal with a better score.", start |-> 1, end |-> 10]>>]
    @@ "Nadal lost and missed the score against Djokovic." :>
        [tokens |-> <<"Nadal", "lost", "and", "missed", "the", "score", "against", "Djokovic", ".">>,
         like_num |-> <<>>,
         ents |-> <<>>,
         sents |-> <<[text |-> "Nadal lost and missed the score against Djokovic.", start |-> 1, end |-> 9]>>]
    @@ "Senate passed the climate bill." :>
        [tokens |-> <<"Senate", "passed", "the", "climate", "bill", ".">>,
         like_num |-> <<>>,
         ents |-> <<>>,
         sents |-> <<[text |-> "Senate passed the climate bill.", start |-> 1, end |-> 6]>>]
    @@ "Senate rejected the climate bill." :>
        [tokens |-> <<"Senate", "rejected", "the", "climate", "bill", ".">>,
         like_num |-> <<>>,
         ents |-> <<>>,
         sents |-> <<[text |-> "Senate rejected the climate bill.", start |-> 1, end |-> 6]>>]
    @@ "Apple announced that the iPhone 16 was cancelled." :>
        [tokens |-> <<"Apple", "announced", "that", "the", "iPhone", "16", "was", "cancelled", ".">>,
         like_num |-> <<>>,
         ents |-> <<>>,
         sents |-> <<[text |-> "Apple announced that the iPhone 16 was cancelled.", start |-> 1, end |-> 9]>>]

\* `needle in text.lower()`: for each text, the substrings the code looks for
\* that the lower-cased text contains.
LowerHas ==
    "," :> {}
    @@ "." :> {}
    @@ "1" :> {}
    @@ "16" :> {}
    @@ "2" :> {}
    @@ "3" :> {}
    @@ "82" :> {}
    @@ "?" :> {}
    @@ "Apple" :> {"app", "apple"}
    @@ "Apple announced that the iPhone 16 was cancelled." :> {"announced", "app", "apple", "cancelled"}
    @@ "Apple announced the iPhone 16." :> {"announced", "app", "apple"}
    @@ "Apple cancelled the iPhone 16." :> {"app", "apple", "cancelled"}
    @@ "Apple delayed the iPhone 16." :> {"app", "apple", "delayed"}
    @@ "Apple officially launched the iPhone 16 today" :> {"app", "apple", "launch", "launched"}
    @@ "Celtics" :> {"celtics"}
    @@ "Djokovic" :> {"djokovic", "k"}
    @@ "Djokovic scored more points than Nadal." :> {"djokovic", "k", "nadal"}
    @@ "Djokovic won and beat Nadal with a better score." :> {"djokovic", "k", "nadal"}
    @@ "Haaland" :> {"haaland"}
    @@ "Haaland netted 3 goals." :> {"goal", "goals", "haaland"}
    @@ "Haaland scored 1 goals." :> {"goal", "goals", "haaland"}
    @@ "Haaland scored 2 goals." :> {"goal", "goals", "haaland"}
    @@ "Kohli" :> {"k", "kohli"}
    @@ "Kohli hit his century." :> {"century", "k", "kohli"}
    @@ "Kohli scored 82 runs." :> {"k", "kohli", "run"}
    @@ "Lakers" :> {"k", "lakers"}
    @@ "Nadal" :> {"nadal"}
    @@ "Nadal lost and missed the score against Djokovic." :> {"djokovic", "k", "nadal"}
    @@ "Senate" :> {"senate"}
    @@ "Senate passed the climate bill." :> {"bill", "passed", "senate"}
    @@ "Senate rejected the climate bill." :> {"bill", "rejected", "senate"}
    @@ "Sunday" :> {}
    @@ "The" :> {}
    @@ "The weather was fine today." :> {}
    @@ "Who" :> {}
    @@ "Who will win first, Djokovic or Nadal?" :> {"djokovic", "k", "nadal"}
    @@ "Will" :> {}
    @@ "Will Apple launch iPhone 16 tomorrow?" :> {"app", "apple", "launch"}
    @@ "Will Djokovic and Nadal both win before Sunday?" :> {"djokovic", "k", "nadal"}
    @@ "Will Djokovic score exactly 2 points?" :> {"djokovic", "k"}
    @@ "Will Djokovic score more than Nadal first?" :> {"djokovic", "k", "nadal"}
    @@ "Will Djokovic score more than Nadal tomorrow?" :> {"djokovic", "k", "nadal"}
    @@ "Will Haaland score 2 goals tomorrow?" :> {"goal", "goals", "haaland"}
    @@ "Will Haaland score three goals tomorrow?" :> {"goal", "goals", "haaland"}
    @@ "Will Kohli hit a century tomorrow?" :> {"century", "k", "kohli"}
    @@ "Will Lakers beat Celtics tomorrow?" :> {"celtics", "k", "lakers"}
    @@ "Will Senate pass the climate bill tomorrow?" :> {"bill", "senate"}
    @@ "Will both Djokovic and Nadal score exactly 2 points more than before?" :> {"djokovic", "k", "nadal"}
    @@ "Will both Djokovic and Nadal score exactly 2 points?" :> {"djokovic", "k", "nadal"}
    @@ "a" :> {}
    @@ "against" :> {}
    @@ "and" :> {}
    @@ "announced" :> {"announced"}
    @@ "beat" :> {}
    @@ "before" :> {}
    @@ "better" :> {}
    @@ "bill" :> {"bill"}
    @@ "both" :> {}
    @@ "cancelled" :> {"cancelled"}
    @@ "century" :> {"century"}
    @@ "climate" :> {}
    @@ "delayed" :> {"delayed"}
    @@ "exactly" :> {}
    @@ "fine" :> {}
    @@ "first" :> {}
    @@ "goals" :> {"goal", "goals"}
    @@ "his" :> {}
    @@ "hit" :> {}
    @@ "iPhone" :> {}
    @@ "launch" :> {"launch"}
    @@ "launched" :> {"launch", "launched"}
    @@ "lost" :> {}
    @@ "missed" :> {}
    @@ "more" :> {}
    @@ "netted" :> {}
    @@ "officially" :> {}
    @@ "or" :> {}
    @@ "pass" :> {}
    @@ "passed" :> {"passed"}
    @@ "points" :> {}
    @@ "rejected" :> {"rejected"}
    @@ "runs" :> {"run"}
    @@ "score" :> {}
    @@ "scored" :> {}
    @@ "than" :> {}
    @@ "that" :> {}
    @@ "the" :> {}
    @@ "three" :> {}
    @@ "today" :> {}
    @@ "tomorrow" :> {}
    @@ "was" :> {}
    @@ "weather" :> {}
    @@ "will" :> {}
    @@ "win" :> {}
    @@ "with" :> {}
    @@ "won" :> {}

\* `needle in text`: for each text, the substrings the code looks for that
\* the text contains.
Has ==
    "," :> {}
    @@ "." :> {}
    @@ "1" :> {}
    @@ "16" :> {}
    @@ "2" :> {}
    @@ "3" :> {}
    @@ "82" :> {}
    @@ "?" :> {}
    @@ "Apple" :> {"Apple"}
    @@ "Apple announced that the iPhone 16 was cancelled." :> {"Apple"}
    @@ "Apple announced the iPhone 16." :> {"Apple"}
    @@ "Apple cancelled the iPhone 16." :> {"Apple"}
    @@ "Apple delayed the iPhone 16." :> {"Apple"}
    @@ "Apple officially launched the iPhone 16 today" :> {"Apple"}
    @@ "Celtics" :> {"Celtics"}
    @@ "Djokovic" :> {"Djokovic"}
    @@ "Djokovic scored more points than Nadal." :> {"Djokovic", "Nadal"}
    @@ "Djokovic won and beat Nadal with a better score." :> {"Djokovic", "Nadal"}
    @@ "Haaland" :> {"Haaland"}
    @@ "Haaland netted 3 goals." :> {"Haaland"}
    @@ "Haaland scored 1 goals." :> {"Haaland"}
    @@ "Haaland scored 2 goals." :> {"Haaland"}
    @@ "Kohli" :> {"Kohli"}
    @@ "Kohli hit his century." :> {"Kohli"}
    @@ "Kohli scored 82 runs." :> {"Kohli"}
    @@ "Lakers" :> {"Lakers"}
    @@ "Nadal" :> {"Nadal"}
    @@ "Nadal lost and missed the score against Djokovic." :> {"Djokovic", "Nadal"}
    @@ "Senate" :> {"Senate"}
    @@ "Senate passed the climate bill." :> {"Senate"}
    @@ "Senate rejected the climate bill." :> {"Senate"}
    @@ "Sunday" :> {}
    @@ "The" :> {}
    @@ "The weather was fine today." :> {}
    @@ "Who" :> {}
    @@ "Who will win first, Djokovic or Nadal?" :> {"Djokovic", "Nadal"}
    @@ "Will" :> {}
    @@ "Will Apple launch iPhone 16 tomorrow?" :> {"Apple"}
    @@ "Will Djokovic and Nadal both win before Sunday?" :> {"Djokovic", "Nadal"}
    @@ "Will Djokovic score exactly 2 points?" :> {"Djokovic"}
    @@ "Will Djokovic score more than Nadal first?" :> {"Djokovic", "Nadal"}
    @@ "Will Djokovic score more than Nadal tomorrow?" :> {"Djokovic", "Nadal"}
    @@ "Will Haaland score 2 goals tomorrow?" :> {"Haaland"}
    @@ "Will Haaland score three goals tomorrow?" :> {"Haaland"}
    @@ "Will Kohli hit a century tomorrow?" :> {"Kohli"}
    @@ "Will Lakers beat Celtics tomorrow?" :> {"Celtics", "Lakers"}
    @@ "Will Senate pass the climate bill tomorrow?" :> {"Senate"}
    @@ "Will both Djokovic and Nadal score exactly 2 points more than before?" :> {"Djokovic", "Nadal"}
    @@ "Will both Djokovic and Nadal score exactly 2 points?" :> {"Djokovic", "Nadal"}
    @@ "a" :> {}
    @@ "against" :> {}
    @@ "and" :> {}
    @@ "announced" :> {}
    @@ "beat" :> {}
    @@ "before" :> {}
    @@ "better" :> {}
    @@ "bill" :> {}
    @@ "both" :> {}
    @@ "cancelled" :> {}
    @@ "century" :> {}
    @@ "climate" :> {}
    @@ "delayed" :> {}
    @@ "exactly" :> {}
    @@ "fine" :> {}
    @@ "first" :> {}
    @@ "goals" :> {}
    @@ "his" :> {}
    @@ "hit" :> {}
    @@ "iPhone" :> {}
    @@ "launch" :> {}
    @@ "launched" :> {}
    @@ "lost" :> {}
    @@ "missed" :> {}
    @@ "more" :> {}
    @@ "netted" :> {}
    @@ "officially" :> {}
    @@ "or" :> {}
    @@ "pass" :> {}
    @@ "passed" :> {}
    @@ "points" :> {}
    @@ "rejected" :> {}
    @@ "runs" :> {}
    @@ "score" :> {}
    @@ "scored" :> {}
    @@ "than" :> {}
    @@ "that" :> {}
    @@ "the" :> {}
    @@ "three" :> {}
    @@ "today" :> {}
    @@ "tomorrow" :> {}
    @@ "was" :> {}
    @@ "weather" :> {}
    @@ "will" :> {}
    @@ "win" :> {}
    @@ "with" :> {}
    @@ "won" :> {}

\* str.lower() of the token texts and entity names.
LowerOf ==
    "," :> ","
    @@ "." :> "."
    @@ "1" :> "1"
    @@ "16" :> "16"
    @@ "2" :> "2"
    @@ "3" :> "3"
    @@ "82" :> "82"
    @@ "?" :> "?"
    @@ "Apple" :> "apple"
    @@ "Celtics" :> "celtics"
    @@ "Djokovic" :> "djokovic"
    @@ "Haaland" :> "haaland"
    @@ "Kohli" :> "kohli"
    @@ "Lakers" :> "lakers"
    @@ "Nadal" :> "nadal"
    @@ "Senate" :> "senate"
    @@ "Sunday" :> "sunday"
    @@ "The" :> "the"
    @@ "Who" :> "who"
    @@ "Will" :> "will"
    @@ "a" :> "a"
    @@ "against" :> "against"
    @@ "and" :> "and"
    @@ "announced" :> "announced"
    @@ "beat" :> "beat"
    @@ "before" :> "before"
    @@ "better" :> "better"
    @@ "bill" :> "bill"
    @@ "both" :> "both"
    @@ "cancelled" :> "cancelled"
    @@ "century" :> "century"
    @@ "climate" :> "climate"
    @@ "delayed" :> "delayed"
    @@ "exactly" :> "exactly"
    @@ "fine" :> "fine"
    @@ "first" :> "first"
    @@ "goals" :> "goals"
    @@ "his" :> "his"
    @@ "hit" :> "hit"
    @@ "iPhone" :> "iphone"
    @@ "launch" :> "launch"
    @@ "launched" :> "launched"
    @@ "lost" :> "lost"
    @@ "missed" :> "missed"
    @@ "more" :> "more"
    @@ "netted" :> "netted"
    @@ "officially" :> "officially"
    @@ "or" :> "or"
    @@ "pass" :> "pass"
    @@ "passed" :> "passed"
    @@ "points" :> "points"
    @@ "rejected" :> "rejected"
    @@ "runs" :> "runs"
    @@ "score" :> "score"
    @@ "scored" :> "scored"
    @@ "than" :> "than"
    @@ "that" :> "that"
    @@ "the" :> "the"
    @@ "three" :> "three"
    @@ "today" :> "today"
    @@ "tomorrow" :> "tomorrow"
    @@ "was" :> "was"
    @@ "weather" :> "weather"
    @@ "will" :> "will"
    @@ "win" :> "win"
    @@ "with" :> "with"
    @@ "won" :> "won"

\* For each text: the patterns with a re.search match in text.lower().
SearchMatches ==
    "Will Apple launch iPhone 16 tomorrow?" :> {}
    @@ "Will Haaland score 2 goals tomorrow?" :> {"metrics.goals", "comparison.goals", "comparison.assists", "comparison.wickets", "comparison.runs", "comparison.points"}
    @@ "Will Haaland score three goals tomorrow?" :> {"metrics.goals", "comparison.goals", "comparison.assists", "comparison.wickets", "comparison.runs", "comparison.points"}
    @@ "Will Lakers beat Celtics tomorrow?" :> {}
    @@ "Will Kohli hit a century tomorrow?" :> {"cricket.centuries"}
    @@ "Will Djokovic score more than Nadal tomorrow?" :> {"metrics.goals", "more_than", "comparison.goals", "comparison.assists", "comparison.wickets", "comparison.runs", "comparison.points"}
    @@ "Will Senate pass the climate bill tomorrow?" :> {}
    @@ "Who will win first, Djokovic or Nadal?" :> {"first"}
    @@ "Will Djokovic score more than Nadal first?" :> {"metrics.goals", "more_than", "first", "comparison.goals", "comparison.assists", "comparison.wickets", "comparison.runs", "comparison.points"}
    @@ "Will Djokovic and Nadal both win before Sunday?" :> {"first", "both"}
    @@ "Will both Djokovic and Nadal score exactly 2 points?" :> {"metrics.goals", "metrics.points", "both", "exact", "comparison.goals", "comparison.assists", "comparison.wickets", "comparison.runs", "comparison.points"}
    @@ "Will Djokovic score exactly 2 points?" :> {"metrics.goals", "metrics.points", "exact", "comparison.goals", "comparison.assists", "comparison.wickets", "comparison.runs", "comparison.points"}
    @@ "Will both Djokovic and Nadal score exactly 2 points more than before?" :> {"metrics.goals", "metrics.points", "more_than", "first", "both", "exact", "comparison.goals", "comparison.assists", "comparison.wickets", "comparison.runs", "comparison.points"}
    @@ "Apple officially launched the iPhone 16 today" :> {}
    @@ "Apple delayed the iPhone 16." :> {}
    @@ "Apple announced the iPhone 16." :> {}
    @@ "Apple cancelled the iPhone 16." :> {}
    @@ "Haaland scored 2 goals." :> {"metrics.goals", "comparison.goals", "comparison.assists", "comparison.wickets", "comparison.runs", "comparison.points"}
    @@ "Haaland netted 3 goals." :> {"metrics.goals", "comparison.goals"}
    @@ "Haaland scored 1 goals." :> {"metrics.goals", "comparison.goals", "comparison.assists", "comparison.wickets", "comparison.runs", "comparison.points"}
    @@ "The weather was fine today." :> {}
    @@ "Kohli scored 82 runs." :> {"metrics.goals", "metrics.runs", "comparison.goals", "comparison.assists", "comparison.wickets", "comparison.runs", "comparison.points"}
    @@ "Kohli hit his century." :> {"cricket.centuries"}
    @@ "Djokovic scored more points than Nadal." :> {"metrics.goals", "metrics.points", "comparison.goals", "comparison.assists", "comparison.wickets", "comparison.runs", "comparison.points"}
    @@ "Djokovic won and beat Nadal with a better score." :> {"metrics.goals", "comparison.goals", "comparison.assists", "comparison.wickets", "comparison.runs", "comparison.points"}
    @@ "Nadal lost and missed the score against Djokovic." :> {"metrics.goals", "comparison.goals", "comparison.assists", "comparison.wickets", "comparison.runs", "comparison.points"}
    @@ "Senate passed the climate bill." :> {}
    @@ "Senate rejected the climate bill." :> {}
    @@ "Apple announced that the iPhone 16 was cancelled." :> {}

\* For each evidence sentence: int(match.group(1)) of the re.finditer
\* matches of each pattern in the lower-cased sentence, in order.
FinditerValues ==
    "Apple officially launched the iPhone 16 today" :> (<<>>)
    @@ "Apple delayed the iPhone 16." :> (<<>>)
    @@ "Apple announced the iPhone 16." :> (<<>>)
    @@ "Apple cancelled the iPhone 16." :> (<<>>)
    @@ "Haaland scored 2 goals." :> ("football.goals" :> <<2>>)
    @@ "Haaland netted 3 goals." :> ("football.goals" :> <<3>>)
    @@ "Haaland scored 1 goals." :> ("football.goals" :> <<1>>)
    @@ "The weather was fine today." :> (<<>>)
    @@ "Kohli scored 82 runs." :> ("cricket.runs" :> <<82>>)
    @@ "Kohli hit his century." :> (<<>>)
    @@ "Djokovic scored more points than Nadal." :> (<<>>)
    @@ "Djokovic won and beat Nadal with a better score." :> (<<>>)
    @@ "Nadal lost and missed the score against Djokovic." :> (<<>>)
    @@ "Senate passed the climate bill." :> (<<>>)
    @@ "Senate rejected the climate bill." :> (<<>>)
    @@ "Apple announced that the iPhone 16 was cancelled." :> (<<>>)

\* int(text) of the like_num token texts that int() accepts; on the others
\* (number words) it raises ValueError.
IntOf ==
    "16" :> 16
    @@ "2" :> 2


\* -------------------------------------------------- resolution: analysis

Min(a, b) == IF a < b THEN a ELSE b
Max(a, b) == IF a > b THEN a ELSE b

RECURSIVE Concat(_)
\* The concatenation of a sequence of sequences.
Concat(ss) == IF Len(ss) = 0 THEN <<>> ELSE Head(ss) \o Concat(Tail(ss))

RECURSIVE SumSeq(_)
\* sum(...) of a sequence of integers.
SumSeq(s) == IF Len(s) = 0 THEN 0 ELSE Head(s) + SumSeq(Tail(s))

\* [x] * n
Repeat(x, n) == [i \in 1..n |-> x]

\* Body(value), with `value` computed once.
With(value, Body(_)) == CHOOSE result \in {Body(v) : v \in {value}} : TRUE

\* Python's True and False, as values that can share a column with NULL.
Bool(b) == IF b THEN "True" ELSE "False"

\* Confidence values are kept in units of 1/30: n / d is exact for the
\* denominators 2, 3 and 5 of the analyzers, 0.7 is 21 and 1.0 is 30.
Ratio(n, d) == (30 * n) \div d

\* min(1.0, c)
MinOne(c) == Min(30, c)

\* RESOLVER_CONFIG['confidence_threshold'] as configured: a positive
\* confidence (0.5, 0.7 or 0.9), in units of 1/30.
ThresholdChoices == {21}

\* RESOLVER_CONFIG['positive_words'] and RESOLVER_CONFIG['negative_words']
positive_words == {"won", "scored", "beat", "achieved"}
negative_words == {"lost", "missed", "failed"}

\* re.search(pattern, text.lower())
re_search(pattern, text) == pattern \in SearchMatches[text]

\* [int(m.group(1)) for m in re.finditer(pattern, text.lower())]
re_finditer(pattern, text) ==
    IF pattern \in DOMAIN FinditerValues[text]
    THEN FinditerValues[text][pattern]
    ELSE <<>>

\* What an analysis step hands back: a return value (outcome, confidence,
\* evidence) or the exception it raised.
Return(outcome, confidence, evidence) ==
    [raised |-> NULL, outcome |-> outcome, confidence |-> confidence,
     evidence |-> evidence]
Raise(exception) ==
    [raised |-> exception, outcome |-> NULL, confidence |-> 0, evidence |-> <<>>]

team_indicators == {"FC", "United", "City"}

\* The keys of metrics_patterns and of comparison_patterns, in dict order.
metrics_patterns == <<"goals", "assists", "wickets", "runs", "points">>
comparison_patterns == <<"more_than", "first", "both", "exact">>

\* The loop over comparison_patterns without its break: the last pattern
\* of the list that matches the text.
FirstMatch_last(patterns, text) ==
    LET hits == {i \in 1..Len(patterns) : re_search(patterns[i], text)}
    IN IF hits = {} THEN NULL
       ELSE patterns[CHOOSE i \in hits : \A j \in hits : i >= j]

\* The first pattern of the list, in order, that matches the text; NULL
\* when none does (the loop with break over comparison_patterns).
FirstMatch(patterns, text) ==
    LET hits == {i \in 1..Len(patterns) : re_search(patterns[i], text)}
    IN IF hits = {} THEN NULL
       ELSE patterns[CHOOSE i \in hits : \A j \in hits : i <= j]

IsNamed(ent) == ent.label_ \in {"ORG", "PERSON"}
IsTeam(ent) == Has[ent.text] \cap team_indicators # {}
IsPlayer(ent) == ~IsTeam(ent)
IsDate(ent) == ent.label_ = "DATE"
EntTexts(ents) == [i \in 1..Len(ents) |-> ents[i].text]

_extract_entities(question) ==
    LET doc == nlp[question]
        named == SelectSeq(doc.ents, IsNamed)
        dates == SelectSeq(doc.ents, IsDate)
    IN [teams |-> EntTexts(SelectSeq(named, IsTeam)),
        players |-> EntTexts(SelectSeq(named, IsPlayer)),
        metrics |-> {metric \in SeqToSet(metrics_patterns) :
                        re_search("metrics." \o metric, question)},
        values |-> doc.like_num,
        comparison_type |-> FirstMatch(comparison_patterns, question),
        time_reference |-> IF Len(dates) = 0 THEN NULL
                           ELSE dates[Len(dates)].text]

\* The keywords dict of _determine_interest, in dict order.
interest_keywords ==
    <<[interest |-> "football",
       words |-> {"goal", "assist", "shot", "save", "striker", "midfielder"}],
      [interest |-> "cricket",
       words |-> {"run", "wicket", "century", "batting", "bowling", "innings"}],
      [interest |-> "politics",
       words |-> {"votes", "bill", "policy", "election", "approval",
                  "parliament", "congress", "senate", "government", "polling"}],
      [interest |-> "technology",
       words |-> {"launch", "release", "users", "download", "bug", "feature",
                  "update", "version", "app", "software", "device", "product",
                  "startup", "tech", "AI", "cloud", "platform"}]>>

\* any(word in text.lower() for word in words)
AnyIn(words, text) == words \cap LowerHas[text] # {}

_determine_interest(question) ==
    LET hits == {i \in 1..Len(interest_keywords) :
                    AnyIn(interest_keywords[i].words, question)}
    IN IF hits = {} THEN "general"
       ELSE interest_keywords[CHOOSE i \in hits : \A j \in hits : i <= j].interest

\* The sentences of the docs in iteration order (for doc in docs: for sent
\* in doc.sents), each with the tokens of its doc.
DocSents(doc) ==
    [j \in 1..Len(doc.sents) |->
        [text |-> doc.sents[j].text, start |-> doc.sents[j].start,
         end |-> doc.sents[j].end, tokens |-> doc.tokens]]
Sents(docs) == Concat([i \in 1..Len(docs) |-> DocSents(docs[i])])

\* any(entity in sent.text for entity in entities['players'] + entities['teams'])
Relevant(sent, entities) ==
    \E entity \in SeqToSet(entities.players \o entities.teams) :
        entity \in Has[sent.text]

\* The sentences that pass the `if relevant:` test, in order.
RelevantSents(docs, entities) ==
    LET IsRelevant(sent) == Relevant(sent, entities)
    IN SelectSeq(Sents(docs), IsRelevant)

\* stats[metric] after the loop over the sentences.
Stats(pattern, sents) ==
    Concat([i \in 1..Len(sents) |-> re_finditer(pattern, sents[i].text)])

\* The number of matches of the patterns in one sentence.
MatchCount(patterns, text) ==
    SumSeq([i \in 1..Len(patterns) |-> Len(re_finditer(patterns[i], text))])

\* The number of sentences of the list that satisfy the test.
CountSents(sents, Test(_)) == Len(SelectSeq(sents, Test))

\* int(entities['values'][0]) if entities['values'] else 0
TargetRaises(entities) ==
    Len(entities.values) > 0 /\ entities.values[1] \notin DOMAIN IntOf
Target(entities) ==
    IF Len(entities.values) = 0 THEN 0 ELSE IntOf[entities.values[1]]

\* any(v >= target for v in values)
AnyAtLeast(values, target) == \E i \in 1..Len(values) : values[i] >= target

\* mentions: the tokens of the sentence whose lower-cased text contains the
\* lower-cased entity, as positions in the doc.
Mentions(sent, entity) ==
    {i \in sent.start..sent.end : LowerOf[entity] \in LowerHas[sent.tokens[i]]}

\* What one token of the window adds to sentiment_score: token._.sentiment
\* of a registered extension is its default, 0.
WordScore(token) ==
    IF LowerOf[token] \in positive_words THEN 1
    ELSE IF LowerOf[token] \in negative_words THEN -1
    ELSE 0

\* The sum over doc[start:end], start = max(0, mention.i - 5) and
\* end = min(len(doc), mention.i + 5 + 1), for the mention at position i
\* (positions count from 1 here).
WindowScore(sent, i) ==
    LET first == Max(1, i - 5)
        last == Min(Len(sent.tokens), i + 5)
    IN SumSeq([k \in 1..(last - first + 1) |-> WordScore(sent.tokens[first + k - 1])])

\* sentiment_score of an entity in a sentence: 0 without mentions (the
\* entity is skipped and adds nothing to scores).
SentimentScore(sent, entity) ==
    SumSeq([k \in 1..(sent.end - sent.start + 1) |->
              IF (sent.start + k - 1) \in Mentions(sent, entity)
              THEN WindowScore(sent, sent.start + k - 1)
              ELSE 0])

\* token._.sentiment raises AttributeError when no `sentiment` extension is
\* registered on Token; it is read for the first token of the first window.
SentimentRaises(sent, entities, sentiment_ext) ==
    /\ ~sentiment_ext
    /\ \E entity \in entities : Mentions(sent, entity) # {}

\* _analyze_comparison once `both`, the sentences that contain player1 and
\* player2, are known.
CompareIn(both, player1, player2, metrics, sentiment_ext) ==
    LET \* the metrics whose pattern f"{metric}|score|achieve" matches
        Hits(sent) == Cardinality({metric \in metrics :
                                     re_search("comparison." \o metric, sent.text)})
        evidence == Concat([i \in 1..Len(both) |-> Repeat(both[i].text, Hits(both[i]))])
        Score(player) == SumSeq([i \in 1..Len(both) |->
                                   Hits(both[i]) * SentimentScore(both[i], player)])
    IN IF \E i \in 1..Len(both) :
             Hits(both[i]) > 0 /\ SentimentRaises(both[i], {player1, player2}, sentiment_ext)
       THEN Raise("AttributeError")
       ELSE With(<<Score(player1), Score(player2)>>, LAMBDA scores :
              \* total_mentions = sum(scores.values())
              IF scores[1] + scores[2] = 0 THEN Return("False", 0, evidence)
              ELSE Return(Bool(scores[1] > scores[2]),
                          MinOne(Ratio(scores[1] + scores[2], 5)), evidence))

_analyze_comparison(docs, players, metrics, sentiment_ext) ==
    IF Len(players) < 2 THEN Return("False", 0, <<>>)
    ELSE LET MentionsBoth(sent) ==
                 players[1] \in Has[sent.text] /\ players[2] \in Has[sent.text]
         IN With(SelectSeq(Sents(docs), MentionsBoth), LAMBDA both :
                CompareIn(both, players[1], players[2], metrics, sentiment_ext))

football_metrics ==
    <<"football.goals", "football.assists", "football.shots", "football.saves">>

_analyze_football_question(docs, question, entities, sentiment_ext) ==
    With(RelevantSents(docs, entities), LAMBDA sents :
    LET goals == Stats("football.goals", sents)
        evidence == Concat([i \in 1..Len(sents) |->
                      Repeat(sents[i].text, MatchCount(football_metrics, sents[i].text))])
    IN IF "goals" \in LowerHas[question]
       THEN IF TargetRaises(entities) THEN Raise("ValueError")
            ELSE Return(Bool(AnyAtLeast(goals, Target(entities))),
                        MinOne(Ratio(Len(goals), 3)), evidence)
       ELSE _analyze_comparison(docs, entities.players, entities.metrics, sentiment_ext))

_analyze_cricket_question(docs, question, entities, sentiment_ext) ==
    With(RelevantSents(docs, entities), LAMBDA sents :
    LET Century(sent) == re_search("cricket.centuries", sent.text)
        Fifty(sent) == re_search("cricket.fifties", sent.text)
        Appended(sent) ==
            MatchCount(<<"cricket.runs", "cricket.wickets">>, sent.text)
            + (IF Century(sent) THEN 1 ELSE 0) + (IF Fifty(sent) THEN 1 ELSE 0)
        evidence == Concat([i \in 1..Len(sents) |-> Repeat(sents[i].text, Appended(sents[i]))])
    IN IF "century" \in LowerHas[question]
       THEN Return(Bool(CountSents(sents, Century) > 0),
                   MinOne(Ratio(Len(evidence), 2)), evidence)
       ELSE IF AnyIn({"fifty", "half-century"}, question)
       THEN Return(Bool(CountSents(sents, Fifty) > 0),
                   MinOne(Ratio(Len(evidence), 2)), evidence)
       ELSE _analyze_comparison(docs, entities.players, entities.metrics, sentiment_ext))

politics_metrics ==
    <<"politics.votes", "politics.approval", "politics.polls", "politics.seats",
      "politics.majority">>

_analyze_politics_question(docs, question, entities, sentiment_ext) ==
    With(RelevantSents(docs, entities), LAMBDA sents :
    LET about_bill == AnyIn({"bill", "policy"}, question)
        Passed(sent) == AnyIn({"passed", "approved", "enacted"}, sent.text)
        Failed(sent) == ~Passed(sent) /\ AnyIn({"failed", "rejected", "defeated"}, sent.text)
        Pending(sent) == /\ ~Passed(sent) /\ ~Failed(sent)
                         /\ AnyIn({"pending", "proposed", "introduced"}, sent.text)
        Appended(sent) ==
            MatchCount(politics_metrics, sent.text)
            + (IF about_bill /\ (Passed(sent) \/ Failed(sent) \/ Pending(sent))
               THEN 1 ELSE 0)
        evidence == Concat([i \in 1..Len(sents) |-> Repeat(sents[i].text, Appended(sents[i]))])
        passed == IF about_bill THEN CountSents(sents, Passed) ELSE 0
        failed == IF about_bill THEN CountSents(sents, Failed) ELSE 0
        relevant_stats == Stats("politics.votes", sents) \o Stats("politics.approval", sents)
                            \o Stats("politics.polls", sents)
        comparison == _analyze_comparison(docs, entities.players, entities.metrics,
                                          sentiment_ext)
    IN IF AnyIn({"votes", "polling", "approval"}, question)
       THEN IF TargetRaises(entities) THEN Raise("ValueError")
            ELSE IF Len(relevant_stats) > 0
            THEN Return(Bool(AnyAtLeast(relevant_stats, Target(entities))),
                        MinOne(Ratio(Len(relevant_stats), 3)), evidence)
            ELSE comparison
       ELSE IF about_bill
       THEN IF passed > failed
            THEN Return("True", MinOne(Ratio(passed, 2)), evidence)
            ELSE IF failed > 0
            THEN Return("False", MinOne(Ratio(failed, 2)), evidence)
            ELSE comparison
       ELSE comparison)

tech_metrics ==
    <<"tech.users", "tech.revenue", "tech.growth", "tech.market_share", "tech.bugs">>

\* The million/billion/thousand multiplier of a sentence.
Multiplier(sent) ==
    IF "million" \in LowerHas[sent.text] \/ "M" \in Has[sent.text] THEN 1000000
    ELSE IF "B" \in Has[sent.text] THEN 1000000000
    ELSE IF "k" \in LowerHas[sent.text] THEN 1000
    ELSE 1

\* launch_status after the loop: the number of relevant sentences counted
\* for a status by the if/elif chain (announced, released, delayed,
\* cancelled, in this order).
Announced(sent) == AnyIn({"announced", "unveiled", "revealed"}, sent.text)
Released_never(sent) == FALSE
Released(sent) ==
    ~Announced(sent) /\ AnyIn({"launched", "released", "available"}, sent.text)
Delayed(sent) ==
    ~Announced(sent) /\ ~Released(sent) /\ AnyIn({"delayed", "postponed"}, sent.text)
Cancelled(sent) ==
    /\ ~Announced(sent) /\ ~Released(sent) /\ ~Delayed(sent)
    /\ AnyIn({"cancelled", "scrapped"}, sent.text)

_analyze_tech_question(docs, question, entities, sentiment_ext) ==
    With(RelevantSents(docs, entities), LAMBDA sents :
    LET about_launch == AnyIn({"launch", "release"}, question)
        Appended(sent) ==
            MatchCount(tech_metrics, sent.text)
            + (IF about_launch /\ (Announced(sent) \/ Released(sent)
                                    \/ Delayed(sent) \/ Cancelled(sent))
               THEN 1 ELSE 0)
        evidence == Concat([i \in 1..Len(sents) |-> Repeat(sents[i].text, Appended(sents[i]))])
        Scaled(pattern) ==
            Concat([i \in 1..Len(sents) |->
                      [k \in 1..Len(re_finditer(pattern, sents[i].text)) |->
                          re_finditer(pattern, sents[i].text)[k] * Multiplier(sents[i])]])
        user_stats == Scaled("tech.users")
        bug_stats == Scaled("tech.bugs")
        announced == IF about_launch THEN CountSents(sents, Announced) ELSE 0
        released == IF about_launch THEN CountSents(sents, Released) ELSE 0
        delayed == IF about_launch THEN CountSents(sents, Delayed) ELSE 0
        cancelled == IF about_launch THEN CountSents(sents, Cancelled) ELSE 0
        comparison == _analyze_comparison(docs, entities.players, entities.metrics,
                                          sentiment_ext)
    IN IF AnyIn({"users", "customers", "downloads"}, question)
       THEN IF TargetRaises(entities) THEN Raise("ValueError")
            ELSE IF Len(user_stats) > 0
            THEN Return(Bool(AnyAtLeast(user_stats, Target(entities))),
                        MinOne(Ratio(Len(user_stats), 2)), evidence)
            ELSE comparison
       ELSE IF about_launch
       THEN IF cancelled > 0 THEN Return("False", 30, evidence)
            ELSE IF released > 0 THEN Return("True", 30, evidence)
            ELSE IF delayed > 0 THEN Return("False", MinOne(Ratio(delayed, 2)), evidence)
            ELSE IF announced > 0 THEN Return("True", 21, evidence)
            ELSE comparison
       ELSE IF AnyIn({"bugs", "issues"}, question)
       THEN IF TargetRaises(entities) THEN Raise("ValueError")
            ELSE IF Len(bug_stats) > 0
            THEN Return(Bool(AnyAtLeast(bug_stats, Target(entities))),
                        MinOne(Ratio(Len(bug_stats), 2)), evidence)
            ELSE comparison
       ELSE comparison)

\* confidence >= self.CONFIDENCE_THRESHOLD
MeetsThreshold_always(confidence, threshold) == TRUE
MeetsThreshold(confidence, threshold) == confidence >= threshold

\* The analyzer call of _analyze_articles and what reading its result does:
\* nlp(None) raises for a null description; the generic branch calls the
\* undefined self._analyze_sequence for 'first' (AttributeError) and binds
\* no outcome at all for the other comparison types (UnboundLocalError).
Analysis(articles, question, entities, sentiment_ext) ==
    IF \E i \in 1..Len(articles) : articles[i] = NULL THEN Raise("ValueError")
    ELSE With([i \in 1..Len(articles) |-> nlp[articles[i]]], LAMBDA docs :
    LET interest == _determine_interest(question)
    IN IF interest = "technology"
       THEN _analyze_tech_question(docs, question, entities, sentiment_ext)
       ELSE IF interest = "politics"
       THEN _analyze_politics_question(docs, question, entities, sentiment_ext)
       ELSE IF interest = "football"
       THEN _analyze_football_question(docs, question, entities, sentiment_ext)
       ELSE IF interest = "cricket"
       THEN _analyze_cricket_question(docs, question, entities, sentiment_ext)
       ELSE IF entities.comparison_type = "more_than"
       THEN _analyze_comparison(docs, entities.players, entities.metrics, sentiment_ext)
       ELSE IF entities.comparison_type = "first"
       THEN Raise("AttributeError")
       ELSE Raise("UnboundLocalError"))

\* The dict _analyze_articles returns, without its explanation; the outcome
\* is None below the threshold.
_analyze_articles(articles, question, entities, threshold, sentiment_ext) ==
    With(Analysis(articles, question, entities, sentiment_ext), LAMBDA result :
       IF result.raised # NULL THEN result
       ELSE [result EXCEPT !.outcome =
                IF MeetsThreshold(result.confidence, threshold) THEN @ ELSE NULL])

RECURSIVE Numbered(_, _)
\* "1. e1\n2. e2\n..." for the list from its i-th entry on.
Numbered(unique_evidence, i) ==
    IF i > Len(unique_evidence) THEN ""
    ELSE ToString(i) \o ". " \o unique_evidence[i] \o "\n"
            \o Numbered(unique_evidence, i + 1)

\* The explanations _format_evidence can return: list(set(evidence))[:3]
\* takes up to three of the distinct sentences, in the order of the set's
\* iteration, which is not fixed.
_format_evidence(evidence) ==
    IF Len(evidence) = 0 THEN {"No conclusive evidence found."}
    ELSE LET unique == SeqToSet(evidence)
             n == Min(3, Cardinality(unique))
         IN {"Evidence:\n" \o Numbered(unique_evidence, 1) :
                unique_evidence \in {l \in [1..n -> unique] :
                                        \A i, j \in 1..n : l[i] = l[j] => i = j}}

\* What _determine_result can do for a question when _search_news returned
\* `articles`: raise, return None (none = TRUE), or return the dict with the
\* outcome and the note.
_determine_result(question, articles, threshold, sentiment_ext) ==
    LET nothing == [raised |-> NULL, none |-> TRUE, outcome |-> NULL, note |-> NULL,
                    analysed |-> FALSE, confidence |-> 0, evidence |-> 0]
    IN IF Len(articles) = 0 THEN {nothing}
       ELSE UNION {
          IF result.raised # NULL
          THEN {[nothing EXCEPT !.raised = result.raised, !.none = FALSE]}
          ELSE {[raised |-> NULL, none |-> FALSE, outcome |-> result.outcome,
                 note |-> "Based on " \o ToString(Len(articles)) \o " news articles. "
                             \o explanation,
                 analysed |-> TRUE, confidence |-> result.confidence,
                 evidence |-> Len(result.evidence)] :
                explanation \in _format_evidence(result.evidence)} :
          result \in {With(_extract_entities(question), LAMBDA entities :
                         _analyze_articles(articles, question, entities, threshold,
                                           sentiment_ext))}}

\* ------------------------------------------------- resolution: storage

\* isinstance(result, bool)
IsBool_any(result) == TRUE
IsBool(result) == result \in {"True", "False"}

\* str(note)[:500]
Truncate(note) == IF Len(note) > 500 THEN SubSeq(note, 1, 500) ELSE note

\* DatabaseManager.resolve_question on the questions table `tbl`: the table
\* after the call and the exception the call raised. The ValueError of the
\* type check is not an SQLAlchemyError: it leaves the method.
resolve_question(tbl, question_id, result, note) ==
    IF ~IsBool(result) THEN [questions |-> tbl, raised |-> "ValueError"]
    ELSE IF question_id \in 1..Len(tbl)
    THEN [questions |->
            [tbl EXCEPT ![question_id] =
                [@ EXCEPT !.resolved_at = TRUE,
                          !.outcome = result,
                          !.resolution_note = IF note = NULL THEN NULL
                                              ELSE Truncate(note)]],
          raised |-> NULL]
    ELSE [questions |-> tbl, raised |-> NULL]

\* ------------------------------------------------- resolution: one call

\* Largest number of article descriptions of one analysis.
MaxEvidence == 2

\* Question texts that match several of the comparison patterns, or only
\* the last of them.
ComparisonQuestions ==
    {"Will Djokovic score more than Nadal first?",
     "Will Djokovic and Nadal both win before Sunday?",
     "Will both Djokovic and Nadal score exactly 2 points?",
     "Will Djokovic score exactly 2 points?",
     "Will both Djokovic and Nadal score exactly 2 points more than before?"}

\* The questions a single analysis is asked about.
AnalysisQuestions == QuestionTexts \cup ComparisonQuestions

\* The article descriptions a search returns one by one, and one whose only
\* sentence has an announcement word and a cancellation word.
Descriptions ==
    {found[1] : found \in {r \in SearchResults : Len(r) = 1 /\ r[1] # NULL}}
        \cup {"Apple announced that the iPhone 16 was cancelled."}

\* _determine_result has the question and the articles of the search:
\*   entities   what _extract_entities returned
\*   result     what the analyzer of _analyze_articles returned or raised
\*   added      the number of articles that arrived after the first analysis
\*   before     the analyzer's result on the articles without the last one
Asked(question, articles) ==
    [id |-> 0, question |-> question, articles |-> articles, entities |-> NULL,
     result |-> Return(NULL, 0, <<>>), added |-> 0,
     before |-> Return(NULL, 0, <<>>)]

\* Line 45: entities = self._extract_entities(question['question'])
ExtractEntities ==
    /\ sweep.pc = "asked"
    /\ sweep' = [sweep EXCEPT
                   !.pc = "extracted",
                   !.last.entities = _extract_entities(sweep.last.question)]
    /\ UNCHANGED <<questions, users, exposures, lastCall, req, generatorVars>>

\* Lines 140-170: the analyzer of the question's interest on the articles.
AnalyzeArticles ==
    /\ sweep.pc = "extracted"
    /\ sweep' = [sweep EXCEPT
                   !.pc = "analysed",
                   !.last.result = Analysis(sweep.last.articles, sweep.last.question,
                                            sweep.last.entities, sweep.sentiment_ext)]
    /\ UNCHANGED <<questions, users, exposures, lastCall, req, generatorVars>>

\* The search returns one more article and the same question, with the same
\* entities, is analysed again.
AddEvidence ==
    /\ sweep.pc = "analysed"
    /\ Len(sweep.last.articles) < MaxEvidence
    /\ \E description \in Descriptions :
         sweep' = [sweep EXCEPT
                     !.last.articles = Append(@, description),
                     !.last.added = @ + 1,
                     !.last.before = sweep.last.result,
                     !.last.result = Analysis(Append(sweep.last.articles, description),
                                              sweep.last.question, sweep.last.entities,
                                              sweep.sentiment_ext)]
    /\ UNCHANGED <<questions, users, exposures, lastCall, req, generatorVars>>

\* --------------------------------------------------- resolution: sweep

\* DatabaseManager.get_pending_resolutions is not in the repository. What
\* it returns: the questions without resolved_at, as dicts with 'id' and
\* 'question', in id order.
get_pending_resolutions(tbl) ==
    LET IsPending(q) == ~tbl[q].resolved_at
        order == SelectSeq([q \in 1..Len(tbl) |-> q], IsPending)
    IN [i \in 1..Len(order) |->
           [id |-> order[i], question |-> tbl[order[i]].question_text]]

\* The exception classes of the model; all of them derive from Exception.
ExceptionClasses ==
    {"ValueError", "AttributeError", "UnboundLocalError", "TypeError",
     "KeyError", "NameError"}

\* except Exception as e
Caught_none(exception) == FALSE
Caught(exception) == exception \in ExceptionClasses

NoStep == [id |-> 0]

\* No sweep is running. The fields of a sweep:
\*   threshold       self.CONFIDENCE_THRESHOLD, the same for every sweep
\*   sentiment_ext   whether a `sentiment` extension is registered on Token
\*   pending         the list get_pending_resolutions returned
\*   index           the position of the loop in it
\*   resolved_count  the counter the sweep returns
\*   failed          the ids of the questions whose iteration raised
\*   last            the last iteration of the loop: what was found, whether
\*                   the question had resolved_at before and has it after,
\*                   and whether a resolution field of its row changed
IdleSweep(threshold, sentiment_ext) ==
    [pc |-> "idle", threshold |-> threshold, sentiment_ext |-> sentiment_ext,
     pending |-> <<>>, index |-> 0, resolved_count |-> 0, failed |-> {},
     last |-> NoStep]

\* The resolution fields of a row of the questions table.
ResolutionFields(row) ==
    [resolved_at |-> row.resolved_at, outcome |-> row.outcome,
     resolution_note |-> row.resolution_note]

\* QuestionResolver() is constructed and resolve_pending_questions reads
\* the pending list.
StartSweep ==
    /\ sweep.pc = "idle"
    /\ sweep' = [sweep EXCEPT !.pc = "loop", !.index = 1,
                              !.pending = get_pending_resolutions(questions)]
    /\ UNCHANGED <<questions, users, exposures, lastCall, req, generatorVars>>

\* One iteration of `for question in pending`: the body of the try and the
\* except clause.
SweepStep ==
    /\ sweep.pc = "loop"
    /\ sweep.index <= Len(sweep.pending)
    /\ LET question == sweep.pending[sweep.index]
       IN \E articles \in SearchResults :
            \E result \in _determine_result(question.question, articles,
                                            sweep.threshold, sweep.sentiment_ext) :
            \E call \in {IF result.raised = NULL /\ ~result.none
                          THEN resolve_question(questions, question.id,
                                                result.outcome, result.note)
                          ELSE [questions |-> questions, raised |-> NULL]} :
              LET called == result.raised = NULL /\ ~result.none
                  raised == IF result.raised # NULL THEN result.raised
                            ELSE call.raised
                  counted == called /\ raised = NULL
                  goes_on == raised = NULL \/ Caught(raised)
              IN /\ questions' = call.questions
                 /\ sweep' = [sweep EXCEPT
                       !.pc = IF goes_on THEN "loop" ELSE "raised",
                       !.index = IF goes_on THEN @ + 1 ELSE @,
                       !.resolved_count = IF counted THEN @ + 1 ELSE @,
                       !.failed = IF raised # NULL THEN @ \cup {question.id} ELSE @,
                       !.last = [id |-> question.id,
                                 searched |-> Len(articles),
                                 analysed |-> result.analysed,
                                 confidence |-> result.confidence,
                                 evidence |-> result.evidence,
                                 raised |-> raised,
                                 counted |-> counted,
                                 was_resolved |-> questions[question.id].resolved_at,
                                 resolved |-> call.questions[question.id].resolved_at,
                                 changed |-> ResolutionFields(call.questions[question.id])
                                               # ResolutionFields(questions[question.id])]]
    /\ UNCHANGED <<users, exposures, lastCall, req, generatorVars>>

\* return resolved_count
ReturnSweep ==
    /\ sweep.pc = "loop"
    /\ sweep.index > Len(sweep.pending)
    /\ sweep' = [sweep EXCEPT !.pc = "returned"]
    /\ UNCHANGED <<questions, users, exposures, lastCall, req, generatorVars>>

\* run_scheduler is done with the sweep: it printed the count, or the
\* exception ended it.
FinishSweep ==
    /\ sweep.pc \in {"returned", "raised"}
    /\ sweep' = IdleSweep(sweep.threshold, sweep.sentiment_ext)
    /\ UNCHANGED <<questions, users, exposures, lastCall, req, generatorVars>>

\* The note values a caller of the internal route sends.
NoteChoices == {NULL, "checked by hand"}

\* POST /internal/questions/{question_id}/resolve/ : result is a bool (the
\* route's parameter type), the id is any integer.
ResolveQuestionInternal ==
    \E question_id \in 1..(Len(questions) + 1), result \in BOOLEAN,
       note \in NoteChoices :
        /\ questions' = resolve_question(questions, question_id, Bool(result),
                                         note).questions
        /\ UNCHANGED <<users, exposures, lastCall, req, sweep, generatorVars>>

\* self.player_patterns
self_player_patterns ==
    {"batsman", "bowler", "all-rounder", "keeper", "captain", "striker",
     "forward", "midfielder", "defender", "goalkeeper", "scored", "hits",
     "takes", "saves", "plays", "shoots", "goals", "assists", "runs",
     "wickets", "catches", "injured", "fit", "available", "selected",
     "starting"}

\* self.templates
self_templates ==
    [cricket |-> <<
        "Will {team} score more than {runs} runs against {opponent} {time}?",
        "Will {player} score less than {runs} runs {time}?",
        "Will {team} chase down the target of {runs} runs {time}?",
        "Will {player} take more than {wickets} wickets {time}?",
        "Will {team} restrict {opponent} under {runs} runs {time}?",
        "Will {player} score more runs than {opponent_player} {time}?",
        "Will {player} hit more than {boundaries} sixes {time}?",
        "Will both {player} and {opponent_player} score above {runs} runs {time}?"
     >>,
     football |-> <<
        "Will {team} score {goals} goals against {opponent} {time}?",
        "Can {player} score in the first {minutes} minutes {time}?",
        "Will {team} win with a {goals}-goal margin {time}?",
        "Who will score first: {player} or {opponent_player} {time}?",
        "Will {player} score more goals than {opponent_player} {time}?",
        "Can {player} get more assists than {opponent_player} {time}?",
        "Will both {player} and {opponent_player} score {goals} goals {time}?",
        "Who will have more shots on target: {player} or {opponent_player} {time}?"
     >>,
     technology |-> <<
        "Will {company} reach {users} million users for {product} {time}?",
        "Can {product} achieve {percent}% market share {time}?",
        "Will {company}'s {product} revenue grow by {percent}% {time}?",
        "Will {company} launch {product} {time}?",
        "Can {company} release {product} before {opponent_company} {time}?",
        "Will both {company} and {opponent_company} release their {category} products {time}?",
        "Can {company} fix {number} critical bugs in {product} {time}?",
        "Will {company}'s AI model outperform {opponent_company}'s {time}?",
        "Can {product} process {number} million transactions {time}?",
        "Will {company} acquire more startups than {opponent_company} {time}?",
        "Can {company} maintain its lead over {opponent_company} in {category} {time}?",
        "Will {company}'s stock outperform {opponent_company}'s {time}?"
     >>,
     sports |-> <<
        "Will {team} win against {opponent} by {points} points {time}?",
        "Can {player} break the {record} record {time}?",
        "Will {team} qualify for {tournament} {time}?"
     >>,
     politics |-> <<
        "Will {politician} get {percent}% approval rating {time}?",
        "Can {politician} win {percent}% votes in {region} {time}?",
        "Will {party} secure {number} seats in {region} {time}?",
        "Can {bill} get {number} votes in parliament {time}?",
        "Will {policy} be implemented in {region} {time}?",
        "Can {politician} pass more bills than {opponent_politician} {time}?",
        "Will {politician} have higher approval ratings than {opponent_politician} {time}?",
        "Can {party} form government in {region} {time}?",
        "Will both {politician} and {opponent_politician} participate in {event} {time}?",
        "Will {policy} affect {number} million citizens {time}?",
        "Can {politician} reduce {metric} by {percent}% in {region} {time}?",
        "Will {party}'s {policy} get more support than {opponent_party}'s {time}?"
     >>]

\* self.entities as constructed; format() renders the numbers with str().
self_entities ==
    [cricket |-> [
        team |-> <<"India", "Australia", "England", "South Africa">>,
        player |-> <<"Virat Kohli", "Rohit Sharma", "KL Rahul",
                     "Steve Smith", "David Warner", "Marnus Labuschagne",
                     "Joe Root", "Ben Stokes", "Jonny Bairstow",
                     "Kane Williamson", "Babar Azam", "Shakib Al Hasan">>,
        opponent_player |-> <<"Pat Cummins", "Mitchell Starc",
                              "Josh Hazlewood", "James Anderson",
                              "Stuart Broad", "Jasprit Bumrah",
                              "Kagiso Rabada", "Trent Boult",
                              "Shaheen Afridi">>,
        runs |-> <<"150", "180", "200", "250", "300">>,
        wickets |-> <<"2", "3", "4", "5">>,
        boundaries |-> <<"2", "3", "4", "5">>,
        opponent |-> <<"Pakistan", "New Zealand", "West Indies", "Sri Lanka">>
     ],
     football |-> [
        team |-> <<"Manchester United", "Liverpool", "Barcelona",
                   "Real Madrid">>,
        player |-> <<"Erling Haaland", "Kylian Mbappe", "Mohamed Salah",
                     "Harry Kane", "Kevin De Bruyne", "Bruno Fernandes",
                     "Vinicius Jr", "Jude Bellingham", "Marcus Rashford">>,
        opponent_player |-> <<"Robert Lewandowski", "Victor Osimhen",
                              "Lautaro Martinez", "Bukayo Saka",
                              "Phil Foden", "Rafael Leao", "Darwin Nunez",
                              "Gabriel Jesus", "Julian Alvarez">>,
        goals |-> <<"2", "3", "4", "5">>,
        minutes |-> <<"30", "45", "60">>,
        opponent |-> <<"Chelsea", "Arsenal", "Bayern Munich", "PSG">>
     ],
     technology |-> [
        company |-> <<"Apple", "Google", "Microsoft", "Meta", "Amazon",
                      "Tesla", "NVIDIA">>,
        opponent_company |-> <<"Samsung", "OpenAI", "IBM", "Oracle",
                               "Intel", "AMD">>,
        product |-> <<"iPhone 16", "Pixel 9", "Windows 12", "ChatGPT-5",
                      "Tesla Model 3">>,
        category |-> <<"AI", "Cloud", "5G", "VR", "Quantum Computing",
                       "Electric Vehicles">>,
        percent |-> <<"5", "10", "15", "20", "25", "30">>,
        users |-> <<"1", "5", "10", "50", "100">>,
        number |-> <<"10", "20", "50", "100", "500">>
     ],
     sports |-> [
        team |-> <<"Lakers", "Warriors", "Celtics", "Heat">>,
        player |-> <<"LeBron", "Curry", "Djokovic", "Nadal">>,
        points |-> <<"10", "15", "20", "25">>,
        tournament |-> <<"Champions League", "World Cup", "Olympics",
                         "Super Bowl">>,
        record |-> <<"scoring", "assists", "points", "championship">>
     ],
     politics |-> [
        politician |-> <<"Biden", "Trump", "Harris", "DeSantis", "Newsom",
                         "McConnell">>,
        opponent_politician |-> <<"Sanders", "Warren", "Cruz", "Pelosi",
                                  "McCarthy">>,
        party |-> <<"Democrats", "Republicans", "Progressives",
                    "Conservatives">>,
        opponent_party |-> <<"GOP", "Democratic Party", "Liberal Party",
                             "Labor Party">>,
        region |-> <<"California", "Texas", "Florida", "New York",
                     "Washington">>,
        bill |-> <<"Healthcare Bill", "Tax Reform", "Climate Act",
                   "Education Bill">>,
        policy |-> <<"Healthcare Reform", "Tax Policy", "Climate Policy",
                     "Immigration Reform">>,
        event |-> <<"Debate", "Town Hall", "Campaign Rally",
                    "Press Conference">>,
        metric |-> <<"Unemployment", "Inflation", "Crime Rate",
                     "Carbon Emissions">>,
        percent |-> <<"30", "40", "50", "60">>,
        number |-> <<"1", "5", "10", "50">>
     ]]

\* self.filter_words
self_filter_words ==
    {"A", "An", "And", "At", "But", "By", "Down", "For", "From", "In", "On",
     "Or", "Over", "The", "To", "Under", "Up", "With", "app", "apr",
     "april", "aug", "august", "committee", "congress", "dec", "december",
     "device", "feb", "february", "friday", "government", "hardware",
     "house", "jan", "january", "jul", "july", "jun", "june", "mar",
     "march", "may", "monday", "nov", "november", "oct", "october",
     "platform", "saturday", "senate", "sep", "september", "software",
     "sunday", "system", "thursday", "tuesday", "wednesday"}

\* self.event_dates
self_event_dates ==
    [cricket |->
        ("IPL 2025" :> [
            dates |-> <<"March 22", "March 26", "April 2", "May 25">>,
            teams |-> <<"Mumbai Indians", "Chennai Super Kings", "Royal Challengers">>,
            matches |-> ("March 22" :> <<"Mumbai Indians", "Chennai Super Kings">>
                         @@ "March 26" :> <<"Royal Challengers", "Punjab Kings">>
                         @@ "April 2" :> <<"Gujarat Titans", "Rajasthan Royals">>
                         @@ "April 6" :> <<"Delhi Capitals", "Kolkata Knight Riders">>)]) @@
        ("T20 World Cup 2025" :> [
            dates |-> <<"June 15", "June 20", "June 25", "July 5">>,
            teams |-> <<"India", "Australia", "England", "South Africa">>,
            matches |-> ("June 15" :> <<"India", "Australia">>
                         @@ "June 20" :> <<"England", "South Africa">>
                         @@ "June 25" :> <<"India", "England">>
                         @@ "July 5" :> <<"Australia", "South Africa">>)]),
     football |->
        ("Premier League 2025" :> [
            dates |-> <<"March 30", "April 6", "April 13">>,
            teams |-> <<"Manchester City", "Arsenal", "Liverpool">>,
            matches |-> ("March 30" :> <<"Manchester City", "Arsenal">>
                         @@ "April 6" :> <<"Liverpool", "Manchester United">>
                         @@ "April 13" :> <<"Chelsea", "Tottenham">>)]) @@
        ("Champions League 2025" :> [
            dates |-> <<"April 9", "April 16", "April 30">>,
            matches |-> ("April 9" :> <<"Real Madrid", "Bayern Munich">>
                         @@ "April 16" :> <<"Manchester City", "PSG">>
                         @@ "April 30" :> <<"Barcelona", "Inter Milan">>)])]

\* ------------------------------------------------- generation: strings

\* The texts of the model are ASCII; these are the cased letters and the
\* digits among their characters.
UpperCaseLetters ==
    <<"A", "B", "C", "D", "E", "F", "G", "H", "I", "J", "K", "L", "M",
      "N", "O", "P", "Q", "R", "S", "T", "U", "V", "W", "X", "Y", "Z">>
LowerCaseLetters ==
    <<"a", "b", "c", "d", "e", "f", "g", "h", "i", "j", "k", "l", "m",
      "n", "o", "p", "q", "r", "s", "t", "u", "v", "w", "x", "y", "z">>
DigitChars == {"0", "1", "2", "3", "4", "5", "6", "7", "8", "9"}

\* s[i - 1]: the i-th character of s
Char(s, i) == SubSeq(s, i, i)

\* c.isupper() and c.isdigit() for one character
UpperCase == {UpperCaseLetters[i] : i \in 1..26}
isupper(c) == c \in UpperCase
isdigit(c) == c \in DigitChars

\* c.lower() for the uppercase letters
ToLower ==
    [c \in UpperCase |->
        LowerCaseLetters[CHOOSE i \in 1..26 : UpperCaseLetters[i] = c]]

LowerChar(c) == IF isupper(c) THEN ToLower[c] ELSE c

RECURSIVE LowerFrom(_, _, _)
\* s[i - 1:j].lower(), a half at a time
LowerFrom(s, i, j) ==
    IF i > j THEN ""
    ELSE IF i = j THEN LowerChar(Char(s, i))
    ELSE LowerFrom(s, i, (i + j) \div 2) \o LowerFrom(s, (i + j) \div 2 + 1, j)

\* s.lower()
str_lower(s) == LowerFrom(s, 1, Len(s))

\* needle in s
str_in(needle, s) ==
    \E i \in 1..(Len(s) - Len(needle) + 1) :
        SubSeq(s, i, i + Len(needle) - 1) = needle

\* s.startswith(prefix)
startswith(s, prefix) ==
    Len(s) >= Len(prefix) /\ SubSeq(s, 1, Len(prefix)) = prefix

\* s.index(c) + 1 for a character c of s
index(s, c) ==
    CHOOSE i \in 1..Len(s) :
        Char(s, i) = c /\ \A j \in 1..(i - 1) : Char(s, j) # c

\* s.split(sep) for a separator of one character: the pieces between the
\* cuts, which are the separators and the two ends of s
split_at(s, sep) ==
    With(SelectSeq([k \in 1..(Len(s) + 2) |-> k - 1],
                   LAMBDA i : i \in {0, Len(s) + 1} \/ Char(s, i) = sep),
         LAMBDA cuts :
            [k \in 1..(Len(cuts) - 1) |-> SubSeq(s, cuts[k] + 1, cuts[k + 1] - 1)])

\* s.split(); the blank is the only whitespace of the texts
split(s) ==
    With(split_at(s, " "), LAMBDA pieces :
         SelectSeq(pieces, LAMBDA piece : piece # ""))

RECURSIVE JoinFrom(_, _)
JoinFrom(words, i) ==
    IF i > Len(words) THEN ""
    ELSE IF i = Len(words) THEN words[i]
    ELSE words[i] \o " " \o JoinFrom(words, i + 1)

\* ' '.join(words)
join(words) == JoinFrom(words, 1)

\* ---------------------------------------------- generation: validator

\* Field(..., min_length=20, max_length=150)
min_length == 20
max_length == 150

valid_starts == {"Will ", "Can ", "Who will "}

comparison_terms ==
    {"more", "higher", "better", "greater", "policy", "bill", "government",
     "implement", "than", "versus", "vs", "first", "before", "lead"}

time_markers ==
    {"match on", "game on", "quarter", "year", "season", "tournament"}

\* any(v.startswith(start) for start in valid_starts)
HasValidStart(v) == \E start \in valid_starts : startswith(v, start)

\* The second test: a digit, a comparison or policy term, 'both', or a
\* text that starts with 'who will'; `lowered` is v.lower().
HasNumberOrComparison(v, lowered) ==
    \/ \E i \in 1..Len(v) : isdigit(Char(v, i))
    \/ \E term \in comparison_terms : str_in(term, lowered)
    \/ str_in("both", lowered)
    \/ startswith(lowered, "who will")

\* any(word[0].isupper() and len(word) > 2 for word in words)
HasProperName(v) ==
    With(split(v), LAMBDA words :
        \E i \in 1..Len(words) : isupper(Char(words[i], 1)) /\ Len(words[i]) > 2)

\* any(marker in v.lower() for marker in time_markers)
HasTimeMarker(lowered) == \E marker \in time_markers : str_in(marker, lowered)

\* PredictionQuestion.validate_question_format: TRUE if it returns v, FALSE
\* if it raises ValueError.
validate_question_format(v) ==
    /\ HasValidStart(v)
    /\ With(str_lower(v), LAMBDA lowered :
          /\ HasNumberOrComparison(v, lowered)
          /\ HasProperName(v)
          /\ HasTimeMarker(lowered))

\* PredictionQuestion(question_text=...): TRUE if the model is constructed,
\* FALSE if pydantic raises ValidationError. The other fields are a str and
\* lists of str in every call of the model.
PredictionQuestion(question_text) ==
    /\ Len(question_text) >= min_length
    /\ Len(question_text) <= max_length
    /\ validate_question_format(question_text)

\* ------------------------------------------ generation: name extraction

article_team_indicators == {"FC", "United", "City", "Team", "XI", "Cricket"}
team_prefixes == {"Real", "Manchester", "Inter", "AC", "Bayern", "Borussia"}
tournament_indicators == {"League", "Cup", "Series", "Championship", "Trophy"}

MIN_TEAM_LENGTH == 3
MIN_PLAYER_LENGTH == 4

\* word[0].isupper() and len(word) > 1
Capitalized(word) == isupper(Char(word, 1)) /\ Len(word) > 1

\* The class _extract_entities_from_articles gives the name that starts at
\* words[i]: "teams", "tournaments", "players" or "none".
NameClass(words, i, full_name, parts) ==
    IF Len(full_name) < MIN_TEAM_LENGTH THEN "none"
    ELSE IF \/ \E indicator \in article_team_indicators : str_in(indicator, full_name)
            \/ \E prefix \in team_prefixes : startswith(full_name, prefix)
    THEN "teams"
    ELSE IF \E indicator \in tournament_indicators : str_in(indicator, full_name)
    THEN "tournaments"
    ELSE IF /\ Len(full_name) >= MIN_PLAYER_LENGTH
            /\ \/ parts >= 2
               \/ With(str_lower(join(SubSeq(words, Max(1, i - 3),
                                             Min(Len(words), i + 3)))),
                       LAMBDA context :
                          \E pattern \in self_player_patterns : str_in(pattern, context))
    THEN "players"
    ELSE "none"

\* The names of one sentence's words with their classes.
NamesIn(words) ==
    {With(CHOOSE n \in i..Len(words) :
              /\ \A k \in (i + 1)..n : Capitalized(words[k])
              /\ n = Len(words) \/ ~Capitalized(words[n + 1]),
          LAMBDA last :
             With(join(SubSeq(words, i, last)), LAMBDA full_name :
                [full_name |-> full_name,
                 class |-> NameClass(words, i, full_name, last - i + 1)])) :
        i \in {j \in 1..Len(words) :
                  /\ Capitalized(words[j])
                  /\ str_lower(words[j]) \notin self_filter_words}}

_extract_entities_from_articles(articles) ==
    With(UNION {NamesIn(words) :
                  words \in UNION {{split(sentence) :
                                      sentence \in SeqToSet(split_at(article, "."))} :
                                   article \in SeqToSet(articles)}},
         LAMBDA names :
            [players |-> {n.full_name : n \in {c \in names : c.class = "players"}},
             teams |-> {n.full_name : n \in {c \in names : c.class = "teams"}},
             tournaments |-> {n.full_name : n \in {c \in names : c.class = "tournaments"}}])

\* -------------------------------------------- generation: the question

\* dict.get(interest, dict['sports'])
get(dict, interest) ==
    IF interest \in DOMAIN dict THEN dict[interest] ELSE dict["sports"]

\* The orders a shuffle, or the iteration of a set, can give.
Orders(S) ==
    {p \in [1..Cardinality(S) -> S] :
        \A i, j \in 1..Cardinality(S) : p[i] = p[j] => i = j}

\* Lines 284-292 on self.entities (`pools`): the pools after them and the
\* exception they raised.
AddPlayers(pools, interest, players) ==
    IF players = {} \/ interest \notin {"cricket", "football", "sports"}
    THEN {[entities |-> pools, raised |-> NULL]}
    ELSE {LET mid == Len(new_players) \div 2
              first == [pools EXCEPT ![interest].player =
                                        SubSeq(new_players, 1, mid) \o @]
          IN IF "opponent_player" \in DOMAIN pools[interest]
             THEN [entities |->
                     [first EXCEPT ![interest].opponent_player =
                         SubSeq(new_players, mid + 1, Len(new_players)) \o @],
                   raised |-> NULL]
             ELSE [entities |-> first, raised |-> "KeyError"] :
          new_players \in Orders(players)}

\* Lines 294-297.
AddTeams(pools, interest, teams) ==
    IF teams = {} \/ interest \notin {"cricket", "football", "sports"}
    THEN {[entities |-> pools, raised |-> NULL]}
    ELSE {LET first == [pools EXCEPT ![interest].team = listed \o @]
          IN IF "opponent" \in DOMAIN pools[interest]
             THEN [entities |-> [first EXCEPT ![interest].opponent = listed \o @],
                   raised |-> NULL]
             ELSE [entities |-> first, raised |-> "KeyError"] :
          listed \in Orders(teams)}

\* [p for p in names if len(p) > 2]
LongNames(names) == SelectSeq(names, LAMBDA p : Len(p) > 2)

NoPair == [raised |-> NULL, chosen |-> FALSE]

\* The draws of a value for each of the keys `main` and `other`, the second
\* whatever the first is.
ChoosePair_any(pools, interest, entities, main, other) ==
    IF main \notin DOMAIN entities \/ other \notin DOMAIN entities
    THEN {[raised |-> "KeyError"]}
    ELSE {[raised |-> NULL, chosen |-> TRUE, first |-> first, second |-> second] :
            first \in SeqToSet(entities[main]),
            second \in SeqToSet(entities[other])}

\* Lines 302-311 and 315-323: the draws of two different values for the
\* keys `main` and `other` of the local dict `entities`.
ChoosePair(pools, interest, entities, main, other) ==
    IF main \notin DOMAIN entities \/ other \notin DOMAIN entities
    THEN {[raised |-> "KeyError"]}
    ELSE LET predefined == LongNames(entities[main]) = <<>>
                              \/ LongNames(entities[other]) = <<>>
         IN IF predefined /\ interest \notin DOMAIN pools
            THEN {[raised |-> "KeyError"]}
            ELSE LET valid_main == IF predefined THEN pools[interest][main]
                                   ELSE LongNames(entities[main])
                     valid_others == IF predefined THEN pools[interest][other]
                                     ELSE LongNames(entities[other])
                 IN IF valid_main = <<>> THEN {[raised |-> "IndexError"]}
                    ELSE UNION {
                        IF SeqToSet(valid_others) \ {first} = {}
                        THEN {[raised |-> "IndexError"]}
                        ELSE {[raised |-> NULL, chosen |-> TRUE,
                               first |-> first, second |-> second] :
                                 second \in SeqToSet(valid_others) \ {first}} :
                        first \in SeqToSet(valid_main)}

\* The values a key of the local dict can be formatted with: the entry of
\* the pool that random.choice draws, or the value chosen for a pair.
Choices(entities, players, teams) ==
    [k \in DOMAIN entities |->
        IF players.chosen /\ k = "player" THEN {players.first}
        ELSE IF players.chosen /\ k = "opponent_player" THEN {players.second}
        ELSE IF teams.chosen /\ k = "team" THEN {teams.first}
        ELSE IF teams.chosen /\ k = "opponent" THEN {teams.second}
        ELSE SeqToSet(entities[k])]

\* Lines 327-337: the time references of the scheduled matches.
TimeRefs(interest) ==
    UNION {{"in the " \o event \o " match on " \o match_date :
              match_date \in DOMAIN self_event_dates[interest][event].matches} :
           event \in DOMAIN self_event_dates[interest]}

RECURSIVE Fields(_)
\* The replacement fields of a template.
Fields(template) ==
    IF ~str_in("{", template) THEN {}
    ELSE {SubSeq(template, index(template, "{") + 1, index(template, "}") - 1)}
            \cup Fields(SubSeq(template, index(template, "}") + 1, Len(template)))

RECURSIVE format(_, _)
\* template.format(**kwargs) for every draw of one value per key: kwargs[k]
\* holds the values key k can get. No template names a field twice.
format(template, kwargs) ==
    IF ~str_in("{", template) THEN {template}
    ELSE With(<<index(template, "{"), index(template, "}")>>, LAMBDA at :
            {SubSeq(template, 1, at[1] - 1) \o value \o rest :
                value \in kwargs[SubSeq(template, at[1] + 1, at[2] - 1)],
                rest \in format(SubSeq(template, at[2] + 1, Len(template)), kwargs)})

\* Lines 300-344 for one template: the question texts the draws can give,
\* each with the template and the pairs drawn for it, or the exception
\* raised before a text exists.
Drafts(pools, interest, template) ==
    LET entities == get(pools, interest)
        Stop(exception) == {[raised |-> exception, question |-> NULL]}
    IN UNION {
         IF players.raised # NULL THEN Stop(players.raised)
         ELSE UNION {
            IF teams.raised # NULL THEN Stop(teams.raised)
            ELSE IF \E k \in DOMAIN entities : entities[k] = <<>>
            THEN Stop("IndexError")
            ELSE IF interest \notin DOMAIN self_event_dates
            THEN Stop("UnboundLocalError")
            ELSE IF ~(Fields(template) \subseteq DOMAIN entities \cup {"time"})
            THEN Stop("KeyError")
            ELSE {[raised |-> NULL, question |-> question, template |-> template,
                   players |-> players, teams |-> teams] :
                    question \in format(template,
                                        Choices(entities, players, teams)
                                          @@ ("time" :> TimeRefs(interest)))} :
            teams \in IF str_in("{team}", template) /\ str_in("{opponent}", template)
                      THEN ChoosePair(pools, interest, entities, "team", "opponent")
                      ELSE {NoPair}} :
         players \in IF str_in("{opponent_player}", template)
                     THEN ChoosePair(pools, interest, entities,
                                     "player", "opponent_player")
                     ELSE {NoPair}}

\* Lines 277-297: self.entities after the names of the articles were added,
\* and the exception raised on the way.
UpdateEntities(pools, articles, interest) ==
    With(_extract_entities_from_articles(articles), LAMBDA article_entities :
      UNION {
        IF a.raised # NULL THEN {a}
        ELSE AddTeams(a.entities, interest, article_entities.teams) :
        a \in AddPlayers(pools, interest, article_entities.players)})

\* Lines 300-344 for every template.
AllDrafts(pools, interest) ==
    UNION {Drafts(pools, interest, template) :
             template \in SeqToSet(get(self_templates, interest))}

\* _generate_fallback_question: the texts it can return, or the exception
\* it raises. random.choice on the dict of an event looks up an integer
\* index in a dict whose keys are strings.
_generate_fallback_question(pools, articles, interest) ==
    LET entities == get(pools, interest)
        Stop(exception) == {[raised |-> exception, question |-> NULL]}
        Text(question) == [raised |-> NULL, question |-> question]
    IN IF interest \in DOMAIN self_event_dates
       THEN Stop("KeyError")
       ELSE LET time_ref == "by the end of next quarter"
            IN IF interest = "politics"
               THEN {Text("Will " \o politician \o " win " \o percent \o "% votes "
                            \o time_ref \o "?") :
                       politician \in SeqToSet(entities.politician),
                       percent \in SeqToSet(entities.percent)}
               ELSE IF interest = "technology"
               THEN {Text("Will " \o company \o " launch " \o product \o " "
                            \o time_ref \o "?") :
                       company \in SeqToSet(entities.company),
                       product \in SeqToSet(entities.product)}
               ELSE IF "team" \notin DOMAIN entities \/ "opponent" \notin DOMAIN entities
               THEN Stop("KeyError")
               ELSE UNION {
                      IF SeqToSet(entities.opponent) \ {team} = {}
                      THEN Stop("IndexError")
                      ELSE {Text("Will " \o team \o " win against " \o opponent \o " "
                                   \o time_ref \o "?") :
                              opponent \in SeqToSet(entities.opponent) \ {team}} :
                      team \in SeqToSet(entities.team)}

\* generate_question with an except clause that returns every source link
\* with the fallback question.
Finish_question_all(pools, articles, sources, interest, attempt) ==
    IF attempt.raised = NULL /\ PredictionQuestion(attempt.question)
    THEN {[raised |-> NULL, question |-> attempt.question, sources |-> sources,
           path |-> "validated", caught |-> NULL, drafts |-> 1,
           template |-> attempt.template, players |-> attempt.players,
           teams |-> attempt.teams]}
    ELSE {[raised |-> f.raised, question |-> f.question,
           sources |-> IF f.raised = NULL THEN sources ELSE <<>>,
           path |-> IF f.raised = NULL THEN "fallback" ELSE "raised",
           caught |-> IF attempt.raised = NULL THEN "ValidationError"
                      ELSE attempt.raised,
           drafts |-> IF attempt.raised = NULL THEN 1 ELSE 0,
           template |-> NULL, players |-> NoPair, teams |-> NoPair] :
            f \in _generate_fallback_question(pools, articles, interest)}

\* What generate_question returns or raises when the try block ended with
\* `attempt` (a text to validate or an exception) on the pools `pools`:
\*   raised     the exception that left the call
\*   question, sources   the dict returned
\*   path       "validated", "fallback", or "raised"
\*   template, players, teams   of a validated question: its template and
\*              the pairs drawn at lines 310-311 and 322-323
\*   caught     the exception the except clause caught
\*   drafts     the number of texts the call formatted and validated
Finish_question(pools, articles, sources, interest, attempt) ==
    IF attempt.raised = NULL /\ PredictionQuestion(attempt.question)
    THEN {[raised |-> NULL, question |-> attempt.question, sources |-> sources,
           path |-> "validated", caught |-> NULL, drafts |-> 1,
           template |-> attempt.template, players |-> attempt.players,
           teams |-> attempt.teams]}
    ELSE {[raised |-> f.raised, question |-> f.question,
           sources |-> IF f.raised = NULL
                       THEN SubSeq(sources, 1, Min(1, Len(sources)))
                       ELSE <<>>,
           path |-> IF f.raised = NULL THEN "fallback" ELSE "raised",
           caught |-> IF attempt.raised = NULL THEN "ValidationError"
                      ELSE attempt.raised,
           drafts |-> IF attempt.raised = NULL THEN 1 ELSE 0,
           template |-> NULL, players |-> NoPair, teams |-> NoPair] :
            f \in _generate_fallback_question(pools, articles, interest)}

\* The calls of generate_question on self.entities = pools: for each way
\* the pools can come out (entities), the results the call can have.
generate_question(pools, articles, sources, interest) ==
    {[entities |-> update.entities,
      results |->
        IF update.raised # NULL
        THEN Finish_question(update.entities, articles, sources, interest,
                             [raised |-> update.raised, question |-> NULL])
        ELSE UNION {Finish_question(update.entities, articles, sources, interest,
                                    attempt) :
                      attempt \in AllDrafts(update.entities, interest)}] :
       update \in UpdateEntities(pools, articles, interest)}

\* -------------------------------------------- generation: the generator

\* Headline lists a caller passes: none, one with a player and countries,
\* one with clubs, and one with a name too long for a question.
NoHeadlines == <<>>
PlayerHeadlines == <<"Virat Kohli scored a century as India beat Australia.">>
TeamHeadlines ==
    <<"Lakers beat Celtics in overtime.", "Manchester City beat Arsenal.">>
LongNameHeadlines ==
    <<"Venkataraghavan-Srinivasaraghavan Balasubramaniam-Lakshmipathy took the new ball.">>

\* The calls of the model, <<interest, articles>>: the interests are the
\* four with templates of their own, "sports", which has pools only, and
\* "business", which the generator does not know.
Calls ==
    {<<"cricket", PlayerHeadlines>>,
     <<"football", LongNameHeadlines>>,
     <<"technology", NoHeadlines>>, <<"technology", TeamHeadlines>>,
     <<"politics", NoHeadlines>>, <<"politics", PlayerHeadlines>>,
     <<"sports", TeamHeadlines>>, <<"sports", LongNameHeadlines>>,
     <<"business", NoHeadlines>>, <<"business", TeamHeadlines>>}

\* The links that come with the headlines, one per headline.
Links(articles) ==
    [i \in 1..Len(articles) |-> "https://news.example/" \o ToString(i)]

\* The batch calls of the model, <<interest, articles>>: interests whose
\* questions are drawn from two pools, and "sports", whose calls raise.
BatchCalls ==
    {<<"technology", TeamHeadlines>>,
     <<"politics", PlayerHeadlines>>,
     <<"sports", NoHeadlines>>}

\* No call of generate_multiple_questions is running.
\*   count, attempts, questions   the parameter and the locals of the call
\*   returned                     the list it returned
NoBatch ==
    [interest |-> NULL, articles |-> <<>>, count |-> 0, attempts |-> 0,
     questions |-> <<>>, returned |-> <<>>]

NoResult ==
    [interest |-> NULL, articles |-> <<>>, raised |-> NULL, question |-> NULL,
     sources |-> <<>>, path |-> NULL, caught |-> NULL, drafts |-> 0,
     template |-> NULL, players |-> NoPair, teams |-> NoPair]

\* QuestionGenerator.__init__: the generator before its first call.
IdleGenerator ==
    [pc |-> "idle", calls |-> 0, entities |-> self_entities, last |-> NoResult,
     batch |-> NoBatch]

\* One call of generate_question with the interest and the headlines of
\* one of `calls`, up to its return or to the exception that leaves it.
Generate(calls) ==
    /\ gen.pc = "idle"
    /\ gen.calls < MaxGenerations
    /\ \E input \in calls :
         \E call \in generate_question(gen.entities, input[2],
                                       Links(input[2]), input[1]) :
           \E result \in call.results :
             gen' = [pc |-> "called", calls |-> gen.calls + 1,
                     entities |-> call.entities,
                     last |-> [interest |-> input[1], articles |-> input[2],
                               raised |-> result.raised,
                               question |-> result.question,
                               sources |-> result.sources,
                               path |-> result.path,
                               caught |-> result.caught,
                               drafts |-> result.drafts,
                               template |-> result.template,
                               players |-> result.players,
                               teams |-> result.teams],
                     batch |-> NoBatch]
    /\ UNCHANGED <<storeVars, resolverVars>>

\* A call of generate_question with any of the calls of the model.
GenerateQuestion == Generate(Calls)

\* A headline with a player of the cricket player pool, whom lines 286-292
\* put into the opponent pool, and a club, which lines 296-297 add to both
\* team pools.
SharedNameHeadlines == <<"Virat Kohli rested for United.">>

\* The calls for the interests with scheduled matches in self.event_dates.
ScheduledCalls ==
    {<<"cricket", SharedNameHeadlines>>, <<"football", NoHeadlines>>}

\* The calls of the model for an interest without scheduled matches.
UnscheduledCalls == {input \in Calls : input[1] \notin DOMAIN self_event_dates}

GenerateScheduled == Generate(ScheduledCalls)
GenerateUnscheduled == Generate(UnscheduledCalls)

\* The caller has the result; the generator waits for its next call.
ReturnQuestion ==
    /\ gen.pc = "called"
    /\ gen' = [gen EXCEPT !.pc = "idle", !.last = NoResult]
    /\ UNCHANGED <<storeVars, resolverVars>>

\* generate_multiple_questions entered: questions = [], attempts = 0.
StartBatch ==
    /\ gen.pc = "idle"
    /\ gen.calls < MaxGenerations
    /\ \E input \in BatchCalls, count \in Counts :
         gen' = [gen EXCEPT !.pc = "batch", !.calls = @ + 1,
                            !.batch = [NoBatch EXCEPT !.interest = input[1],
                                                      !.articles = input[2],
                                                      !.count = count]]
    /\ UNCHANGED <<storeVars, resolverVars>>

InBatch_never(question, batch) == FALSE

\* question['question'] in [q['question'] for q in questions]
InBatch(question, batch) ==
    \E i \in 1..Len(batch) : batch[i].question = question

\* len(questions) < count and attempts < max_attempts
BatchContinues(batch) ==
    Len(batch.questions) < batch.count /\ batch.attempts < batch.count * 2

\* The local `questions` after one pass of the loop body whose call of
\* generate_question ended with `result`.
Collected(batch, result) ==
    IF result.raised # NULL \/ InBatch(result.question, batch)
    THEN batch
    ELSE Append(batch, [question |-> result.question,
                            sources |-> result.sources])

\* One pass of the while loop: a call of generate_question, whose question
\* is appended unless its text is in the list already; an exception of the
\* call is printed and the pass counts as an attempt.
BatchStep ==
    /\ gen.pc = "batch"
    /\ BatchContinues(gen.batch)
    /\ \E call \in generate_question(gen.entities, gen.batch.articles,
                                     Links(gen.batch.articles),
                                     gen.batch.interest) :
         \E result \in call.results :
           gen' = [gen EXCEPT
                     !.entities = call.entities,
                     !.batch.questions = Collected(@, result),
                     !.batch.attempts = @ + 1]
    /\ UNCHANGED <<storeVars, resolverVars>>

\* The loop is over: return questions[:count].
BatchReturn ==
    /\ gen.pc = "batch"
    /\ ~BatchContinues(gen.batch)
    /\ gen' = [gen EXCEPT
                 !.pc = "batch_returned",
                 !.batch.returned =
                     SubSeq(gen.batch.questions, 1,
                            Min(gen.batch.count, Len(gen.batch.questions)))]
    /\ UNCHANGED <<storeVars, resolverVars>>

\* The caller has the batch; the generator waits for its next call.
FinishBatch ==
    /\ gen.pc = "batch_returned"
    /\ gen' = [gen EXCEPT !.pc = "idle", !.batch = NoBatch]
    /\ UNCHANGED <<storeVars, resolverVars>>

\* s.endswith(suffix)
endswith(s, suffix) ==
    Len(s) >= Len(suffix)
        /\ SubSeq(s, Len(s) - Len(suffix) + 1, Len(s)) = suffix

\* Time references of the near future, which are not among the markers
\* of the validator.
NearTimeReferences == {"tomorrow", "this weekend", "next Saturday", "this week"}

\* The question texts handed to the validator: a lead phrase, a subject,
\* a predicate and one time reference.
DraftTexts ==
    {lead \o subject \o predicate \o " " \o time \o "?" :
        lead \in {"Will ", "Can ", "Who will ", "will "},
        subject \in {"Mumbai Indians", "it"},
        predicate \in {" score more than 250 runs against Chennai Super Kings",
                       " win"},
        time \in NearTimeReferences
                  \cup {"in the match on June 15", "this season",
                        "by the end of next quarter"}}

\* PredictionQuestion(question_text=...) on a draft: the model is
\* constructed or pydantic raises ValidationError.
ValidateDraft ==
    /\ gen.pc = "draft"
    /\ gen' = [gen EXCEPT
                 !.pc = "validated",
                 !.last.drafts = 1,
                 !.last.raised = IF PredictionQuestion(gen.last.question)
                                 THEN NULL ELSE "ValidationError"]
    /\ UNCHANGED <<storeVars, resolverVars>>

\* The caller of the validator is done with the draft.
DiscardDraft ==
    /\ gen.pc = "validated"
    /\ gen' = IdleGenerator
    /\ UNCHANGED <<storeVars, resolverVars>>

\* ------------------------------------------ generation: names alone

\* The longest list of headlines handed to the name extraction.
MaxHeadlines == 2

\* Headlines with names of each class, with names that hold the indicator
\* of a team and that of a tournament, and with names after a capitalized
\* article, conjunction, preposition, month, weekday or political noun.
ExtractionHeadlines ==
    {"Virat Kohli rested for United.",
     "India won the Cricket World Cup.",
     "The Lakers won the Cricket World Cup on Monday.",
     "Manchester Cup final.",
     "For England James Anderson takes five wickets.",
     "And Kohli hits again.",
     "March Madness begins.",
     "Senate Committee meets Friday.",
     "Lakers beat Celtics in overtime.",
     "Arsenal lifted the Premier League Trophy."}

\* The lists of at most MaxHeadlines headlines.
HeadlineLists ==
    UNION {[1..n -> ExtractionHeadlines] : n \in 0..MaxHeadlines}

\* _extract_entities_from_articles(articles) on the headlines just handed
\* to the generator.
ExtractNames ==
    /\ gen.pc = "articles"
    /\ gen' = [gen EXCEPT
                 !.pc = "names",
                 !.last = [articles |-> gen.last.articles,
                           names |-> _extract_entities_from_articles(
                                         gen.last.articles)]]
    /\ UNCHANGED <<storeVars, resolverVars>>

\* The caller is done with the names.
DiscardNames ==
    /\ gen.pc = "names"
    /\ gen' = IdleGenerator
    /\ UNCHANGED <<storeVars, resolverVars>>

\* ---------------------------------------------------- specifications

InitStore ==
    /\ questions = <<>>
    /\ users = (1 :> <<"cricket", "football">>) @@ (2 :> <<"Cricket">>)
    /\ exposures = EmptyBag
    /\ lastCall = NoCall
    /\ req = [r \in Requests |-> IdleReq]
    /\ sweep = IdleSweep(0, FALSE)
    /\ gen = IdleGenerator

\* The storage operations that write the exposure table.
NextExposure ==
    \/ CreateQuestion({"text"}, {"cricket"})
    \/ MarkQuestionAsViewed
    \/ UpdateQuestionResponse
    \/ PatchQuestion

SpecExposure == InitStore /\ [][NextExposure]_vars

\* The queries for unseen questions, over the tables that question creation
\* and exposure recording produce.
NextQuery ==
    \/ CreateQuestion({"text"}, Topics)
    \/ MarkQuestionAsViewed
    \/ GetUnusedQuestion
    \/ GetMultipleUnusedQuestions

SpecQuery == InitStore /\ [][NextQuery]_vars

\* Delivery of questions to a user, one call after the other: the read of
\* get_unused_question and GET /questions/ (which may go on into
\* get_fresh_questions), with exposures recorded in between.
NextDeliver ==
    \/ CreateQuestion({"text"}, {"cricket", "football"})
    \/ MarkQuestionAsViewed
    \/ GetUnusedQuestion
    \/ FetchQuestionsStored(1)
    \/ FetchQuestionsFresh(1)
    \/ SelectUnused(1)
    \/ MarkUnused(1)
    \/ GenerateOrReturn(1)
    \/ Finish(1)

SpecDeliver == InitStore /\ [][NextDeliver]_vars

\* Two get_fresh_questions requests running in parallel, each with its own
\* session on the same tables.
NextParallel ==
    \/ CreateQuestion({"text"}, {"cricket"})
    \/ \E r \in Requests :
          \/ GetFreshQuestions(r)
          \/ SelectUnused(r)
          \/ MarkUnused(r)
          \/ GenerateOrReturn(r)
          \/ Finish(r)

SpecParallel == InitStore /\ [][NextParallel]_vars

\* The tables are empty; the resolver's configuration is any of the
\* configurations of the model.
InitResolve ==
    /\ questions = <<>>
    /\ users = (1 :> <<"cricket", "football">>) @@ (2 :> <<"Cricket">>)
    /\ exposures = EmptyBag
    /\ lastCall = NoCall
    /\ req = [r \in Requests |-> IdleReq]
    /\ \E threshold \in ThresholdChoices, sentiment_ext \in BOOLEAN :
         sweep = IdleSweep(threshold, sentiment_ext)
    /\ gen = IdleGenerator

\* The resolution sweeps of the scheduler, one after the other, over the
\* questions stored so far.
NextResolve ==
    \/ CreateQuestion(QuestionTexts, {"sports"})
    \/ StartSweep
    \/ SweepStep
    \/ ReturnSweep
    \/ FinishSweep

SpecResolve == InitResolve /\ [][NextResolve]_vars

\* Sweeps and calls of the internal resolve route, which come in between
\* the steps of a sweep, over questions with one of the texts.
NextReresolve ==
    \/ CreateQuestion({"Will Apple launch iPhone 16 tomorrow?"}, {"technology"})
    \/ ResolveQuestionInternal
    \/ StartSweep
    \/ SweepStep
    \/ ReturnSweep
    \/ FinishSweep

SpecReresolve == InitResolve /\ [][NextReresolve]_vars

\* One question and the first article of its search are at hand; the
\* resolver's configuration is any of the configurations of the model.
InitAnalyze ==
    /\ questions = <<>>
    /\ users = (1 :> <<"cricket", "football">>) @@ (2 :> <<"Cricket">>)
    /\ exposures = EmptyBag
    /\ lastCall = NoCall
    /\ req = [r \in Requests |-> IdleReq]
    /\ \E threshold \in ThresholdChoices, sentiment_ext \in BOOLEAN,
          question \in AnalysisQuestions, description \in Descriptions :
         sweep = [IdleSweep(threshold, sentiment_ext) EXCEPT
                    !.pc = "asked",
                    !.last = Asked(question, <<description>>)]
    /\ gen = IdleGenerator

\* The steps of _determine_result on one question, and on the same question
\* with more articles.
NextAnalyze ==
    \/ ExtractEntities
    \/ AnalyzeArticles
    \/ AddEvidence

SpecAnalyze == InitAnalyze /\ [][NextAnalyze]_vars

\* Calls of generate_question, one after the other, on one generator.
NextGenerate ==
    \/ GenerateQuestion
    \/ ReturnQuestion

SpecGenerate == InitStore /\ [][NextGenerate]_vars

\* Calls of generate_question for cricket and football.
NextScheduled ==
    \/ GenerateScheduled
    \/ ReturnQuestion

SpecScheduled == InitStore /\ [][NextScheduled]_vars

\* Calls of generate_question for the other interests.
NextUnscheduled ==
    \/ GenerateUnscheduled
    \/ ReturnQuestion

SpecUnscheduled == InitStore /\ [][NextUnscheduled]_vars

\* Calls of generate_multiple_questions, one after the other, on one
\* generator.
NextBatch ==
    \/ StartBatch
    \/ BatchStep
    \/ BatchReturn
    \/ FinishBatch

SpecBatch == InitStore /\ [][NextBatch]_vars

\* A draft of the question texts of the model is ready for the validator.
InitValidate ==
    /\ questions = <<>>
    /\ users = (1 :> <<"cricket", "football">>) @@ (2 :> <<"Cricket">>)
    /\ exposures = EmptyBag
    /\ lastCall = NoCall
    /\ req = [r \in Requests |-> IdleReq]
    /\ sweep = IdleSweep(0, FALSE)
    /\ \E question_text \in DraftTexts :
         gen = [IdleGenerator EXCEPT !.pc = "draft",
                                     !.last.question = question_text]

\* The validator applied to a draft.
NextValidate ==
    \/ ValidateDraft
    \/ DiscardDraft

SpecValidate == InitValidate /\ [][NextValidate]_vars

\* The name extraction applied to a list of headlines.
InitExtract ==
    /\ questions = <<>>
    /\ users = (1 :> <<"cricket", "football">>) @@ (2 :> <<"Cricket">>)
    /\ exposures = EmptyBag
    /\ lastCall = NoCall
    /\ req = [r \in Requests |-> IdleReq]
    /\ sweep = IdleSweep(0, FALSE)
    /\ \E articles \in HeadlineLists :
         gen = [IdleGenerator EXCEPT !.pc = "articles",
                                     !.last = [articles |-> articles]]

NextExtract ==
    \/ ExtractNames
    \/ DiscardNames

SpecExtract == InitExtract /\ [][NextExtract]_vars

\* ------------------------------------------------------------ properties

\* The number of rows of the table for a (user, question) pair.
RowCount(tbl, user_id, question_id) ==
    BagCardinality([r \in RowsOf(tbl, user_id, question_id) |-> CopiesIn(r, tbl)])

\* C1: after any sequence of mark_question_as_viewed and
\* update_question_response calls (direct or through PATCH), by any users on
\* any questions, the exposure table holds at most one row for each
\* (user id, question id) pair.
C1_ExposureUnique ==
    \A u \in UserIds, q \in QIds : RowCount(exposures, u, q) <= 1

\* Both users have a row for one question, and an answer was recorded on one
\* of them: inserts and an update have happened on the table.
C1_Witness ==
    \E q \in 1..Len(questions) :
        /\ RowCount(exposures, 1, q) = 1
        /\ RowCount(exposures, 2, q) = 1
        /\ \E r \in RowsOf(exposures, 1, q) : r.response = "yes"

Unexposed(S, user_id) ==
    \A q \in S : RowsOf(exposures, user_id, q) = {}

\* C2 as stated: every question returned by get_unused_question or
\* get_multiple_unused_questions has the requested topic and no exposure row
\* for the user at the time of the call, and get_multiple_unused_questions
\* returns at most n questions.
C2_RequestedTopic ==
    /\ \A u \in UserIds, t \in Topics :
         \A S \in get_unused_question(t, u) :
            /\ \A q \in S : questions[q].interest = t
            /\ Unexposed(S, u)
    /\ \A u \in UserIds, t \in Topics, n \in Counts :
         \A S \in get_multiple_unused_questions(t, u, n) :
            /\ \A q \in S : questions[q].interest = t
            /\ Unexposed(S, u)
            /\ Cardinality(S) <= n

\* C2 amended: every question returned by get_unused_question has the
\* requested topic, every question returned by get_multiple_unused_questions
\* has the requested topic in lower case, none has an exposure row for the
\* user at the time of the call, and get_multiple_unused_questions(n), n >= 0,
\* returns at most n questions; this holds of every possible answer in every
\* reachable state of the tables and of the answer the last call gave.
C2_LoweredTopic ==
    /\ \A u \in UserIds, t \in Topics :
         \A S \in get_unused_question(t, u) :
            /\ \A q \in S : questions[q].interest = t
            /\ Unexposed(S, u)
    /\ \A u \in UserIds, t \in Topics, n \in Counts :
         \A S \in get_multiple_unused_questions(t, u, n) :
            /\ \A q \in S : questions[q].interest = Lower(t)
            /\ Unexposed(S, u)
            /\ Cardinality(S) <= n
    /\ lastCall.op \in {"get_unused_question", "get_multiple_unused_questions"}
         => /\ Unexposed(lastCall.result, lastCall.user)
            /\ Cardinality(lastCall.result) <= lastCall.count
            /\ \A q \in lastCall.result :
                 questions[q].interest =
                    IF lastCall.op = "get_unused_question"
                    THEN lastCall.interest ELSE Lower(lastCall.interest)

\* get_multiple_unused_questions("Cricket", u, 1) answered with one question
\* while the user has an exposure row for another question and a second
\* eligible question was cut off by the limit or the filter.
C2_Witness ==
    /\ lastCall.op = "get_multiple_unused_questions"
    /\ lastCall.interest = "Cricket"
    /\ lastCall.result # {}
    /\ responded_question_ids(lastCall.user) # {}

\* What GET /questions/ can answer from storage alone.
FetchReturns(user_id, count) ==
    {qs \in CollectUnused(users[user_id], 1, user_id, count, {}) :
        Cardinality(qs) >= count}

\* C3 as stated: with no new question stored in between, a delivery call
\* (GET /questions/, get_unused_question) never returns to a user a question
\* that an earlier delivery call already returned to that user; here for the
\* call that follows a delivery directly.
C3_NoRedelivery ==
    lastCall.op \in {"get_unused_question", "fetch_questions"}
        => /\ \A t \in Topics :
                \A S \in get_unused_question(t, lastCall.user) :
                    S \cap lastCall.result = {}
           /\ \A n \in 1..MaxCount :
                \A S \in FetchReturns(lastCall.user, n) :
                    S \cap lastCall.result = {}

\* C4 as stated: a stored question that two parallel get_fresh_questions
\* requests of one user both selected is in the results of at most one of
\* them.
C4_DeliveredOnce ==
    \A r1, r2 \in Requests :
        (/\ r1 # r2
         /\ req[r1].pc = "returned"
         /\ req[r2].pc = "returned"
         /\ req[r1].user = req[r2].user)
            => req[r1].results \cap req[r2].results = {}

\* C5 as stated: once a question has resolved_at set, no later call of
\* resolve_question, from the sweep or from the internal resolve route,
\* changes its outcome, resolved_at or resolution note.
C5_ResolvedOnce ==
    [][\A q \in 1..Len(questions) :
          questions[q].resolved_at
              => ResolutionFields(questions'[q]) = ResolutionFields(questions[q])]_vars

\* The resolution fields of a row that was never resolved.
Unset == [resolved_at |-> FALSE, outcome |-> NULL, resolution_note |-> NULL]

\* The iterations of the running sweep that are over.
Iterated == 1..(sweep.index - 1)

\* C6: in resolve_pending_questions a question becomes resolved only if the
\* analyzer's confidence for it is >= CONFIDENCE_THRESHOLD; when the
\* confidence is below the threshold its resolved_at, outcome and resolution
\* note stay unset and it is not counted: the counter of the sweep is the
\* number of questions the sweep resolved.
C6_ThresholdGate ==
    /\ sweep.last.id # 0 =>
          /\ (sweep.last.resolved /\ ~sweep.last.was_resolved)
                => (sweep.last.analysed /\ sweep.last.confidence >= sweep.threshold)
          /\ (sweep.last.analysed /\ sweep.last.confidence < sweep.threshold)
                => /\ ResolutionFields(questions[sweep.last.id]) = Unset
                   /\ ~sweep.last.counted
    /\ sweep.pc \in {"loop", "returned"} =>
          sweep.resolved_count =
              Cardinality({i \in Iterated : questions[sweep.pending[i].id].resolved_at})

\* The sweep analysed evidence for a question and found a confidence above
\* zero and below the threshold, after it had resolved another question.
C6_Witness ==
    /\ sweep.pc = "loop"
    /\ sweep.last.id # 0
    /\ sweep.last.analysed
    /\ sweep.last.confidence > 0
    /\ sweep.last.confidence < sweep.threshold
    /\ sweep.resolved_count = 1

\* C7: a pending question for which the evidence search returns no snippets,
\* or for which no evidence sentence qualifies, is not resolved by the sweep:
\* its resolution fields stay unset and it is not counted.
C7_NoEvidenceStaysPending ==
    (/\ sweep.last.id # 0
     /\ \/ sweep.last.searched = 0
        \/ sweep.last.analysed /\ sweep.last.evidence = 0)
        => /\ ResolutionFields(questions[sweep.last.id]) = Unset
           /\ ~sweep.last.counted

\* The search returned snippets for the second question of a sweep, none of
\* their sentences qualified, and the sweep had resolved the first question.
C7_Witness ==
    /\ sweep.last.id # 0
    /\ sweep.last.searched > 0
    /\ sweep.last.analysed
    /\ sweep.last.evidence = 0
    /\ sweep.resolved_count = 1
    /\ sweep.index = 3

\* C8: if determining the result of one pending question raises an exception
\* during a sweep, resolve_pending_questions still processes the other
\* pending questions of the sweep and returns normally (no exception ends
\* the sweep, and it returns after the iteration of the last pending
\* question), and the failing question is left pending with its resolution
\* fields unchanged.
C8_FailureIsolated ==
    /\ sweep.pc # "raised"
    /\ sweep.pc = "returned" => sweep.index = Len(sweep.pending) + 1
    /\ sweep.failed \subseteq {sweep.pending[i].id : i \in 1..Len(sweep.pending)}
    /\ (sweep.last.id # 0 /\ sweep.last.raised # NULL)
          => /\ ~sweep.last.changed
             /\ ResolutionFields(questions[sweep.last.id]) = Unset

\* A sweep returned after the analysis of its first question raised and
\* its second question was resolved.
C8_Witness ==
    /\ sweep.pc = "returned"
    /\ sweep.last.id # 0
    /\ sweep.last.counted
    /\ \E f \in sweep.failed : f < sweep.last.id
    /\ sweep.resolved_count = 1

\* C9: for every topic and every headline list with at least one entry,
\* generate_question returns (does not raise) a question text that passes
\* the PredictionQuestion validator or is the fallback text, and a fallback
\* text passes the validator too.
C9_ReturnsValidQuestion ==
    (gen.pc = "called" /\ gen.last.articles # <<>>) =>
        /\ gen.last.raised = NULL
        /\ \/ gen.last.path = "validated"
           \/ gen.last.path = "fallback" /\ PredictionQuestion(gen.last.question)

\* C10: when the validator rejects a draft, generate_question makes and
\* validates another draft, up to a fixed budget of more than one attempt,
\* and turns to the fallback question only after the last attempt: a call
\* whose draft was rejected has validated more than one draft.
C10_RegeneratesBeforeFallback ==
    (gen.pc = "called" /\ gen.last.caught = "ValidationError") =>
        gen.last.drafts > 1

\* C11: generate_question called with an empty headline list raises, or
\* returns an explicit NoArticles condition, and produces no question text.
C11_NoHeadlinesNoQuestion ==
    (gen.pc = "called" /\ gen.last.articles = <<>>) =>
        gen.last.question = NULL

\* C12: get_fresh_questions(count) terminates for every storage state and
\* scraper result, returning the questions it has (possibly none) when
\* storage holds too few unseen questions: no call of it ends with an
\* exception.
C12_FreshQuestionsReturn ==
    \A r \in Requests :
        req[r].kind = "get_fresh_questions" => req[r].pc # "raised"

\* C13: update_question_response for a (user, question) pair without an
\* Exposure row creates one row for the pair, with the response and an
\* answered-at time, and completes without raising: no call of it leaves an
\* exception with its caller.
C13_UpdateWithoutRowCompletes ==
    lastCall.op = "update_question_response" => lastCall.raised = NULL

\* C14: mark_question_as_viewed for a (user, question) pair that already has
\* an Exposure row adds no row and leaves the row's viewed-at, answered-at
\* and response as they were: the table after the call is the table before.
C14_ViewedAgainChangesNothing ==
    \A u \in UserIds, q \in 1..Len(questions) :
        RowsOf(exposures, u, q) # {}
            => mark_question_as_viewed(exposures, q, u) = exposures

\* An answered row exists, so the call on its pair meets a row with
\* viewed-at, answered-at and response set.
C14_Witness ==
    \E row \in BagToSet(exposures) :
        /\ row.viewed_at /\ row.answered_at /\ row.response # NULL
        /\ mark_question_as_viewed(exposures, row.question_id, row.user_id)
              = exposures

\* C15: over any sequence of PATCH /questions/{id}/ and
\* update_question_response calls, response and answered-at of an Exposure
\* row are set at most once: a row that carries a response stays as it is.
C15_ResponseSetOnce ==
    [][\A row \in BagToSet(exposures) :
          row.response # NULL => row \in BagToSet(exposures')]_vars

\* C16: for each response value of {yes, no, skip} that the API accepts,
\* recording it for an exposed (user, question) pair leaves the row's
\* response equal to that value.
C16_ResponseRecorded ==
    \A u \in UserIds, q \in 1..Len(questions), r \in ResponseEnum :
        RowsOf(exposures, u, q) # {} =>
            \A backendAccepts \in BackendChoices(r) :
                \A row \in RowsOf(update_question_response(
                                      exposures, q, u, r, backendAccepts), u, q) :
                    row.response = r

\* C17: generate_multiple_questions never returns two drafts with the same
\* question text in one batch, for every count, topic and headline list.
C17_BatchTextsDiffer ==
    \A i, j \in 1..Len(gen.batch.returned) :
        i # j => gen.batch.returned[i].question # gen.batch.returned[j].question

\* A batch of count questions was returned after a pass that drew a text
\* the list had already.
C17_Witness ==
    /\ gen.pc = "batch_returned"
    /\ gen.batch.count = MaxCount
    /\ Len(gen.batch.returned) = gen.batch.count
    /\ gen.batch.attempts > gen.batch.count
    /\ gen.batch.interest = "technology"

\* C18: generate_question has no side effect other than its pseudo-random
\* draws: after any sequence of calls the curated pools (self.entities) are
\* what they were before the first call. The template lists are not a
\* variable of the model: no line of the class assigns to them.
C18_PoolsUnchanged == [][gen'.entities = gen.entities]_vars

\* C19: the validator accepts "Will Mumbai Indians score more than 250 runs
\* against Chennai Super Kings this weekend?" and, generally, a text that
\* meets the length, lead-phrase, number/comparison and proper-noun rules
\* and whose only time reference is one of tomorrow, this weekend, next
\* Saturday or this week.
C19_NearTimeReferenceAccepted ==
    (/\ gen.pc = "validated"
     /\ Len(gen.last.question) >= min_length
     /\ Len(gen.last.question) <= max_length
     /\ HasValidStart(gen.last.question)
     /\ HasNumberOrComparison(gen.last.question, str_lower(gen.last.question))
     /\ HasProperName(gen.last.question)
     /\ \E time \in NearTimeReferences :
           endswith(gen.last.question, " " \o time \o "?"))
        => gen.last.raised = NULL

\* C20: for the question "Will Apple launch iPhone 16 tomorrow?" with the
\* one snippet "Apple officially launched the iPhone 16 today" and Apple
\* extracted as a named entity, the resolver finds no comparison type, the
\* topic technology and the launch status released, and gives the outcome
\* True with confidence 1.0 (30 in units of 1/30).
C20_AppleLaunchResolved ==
    (/\ sweep.last.id # 0
     /\ questions[sweep.last.id].question_text
           = "Will Apple launch iPhone 16 tomorrow?")
        => \E call \in {[question |-> "Will Apple launch iPhone 16 tomorrow?",
                         articles |->
                            <<"Apple officially launched the iPhone 16 today">>]} :
            \E entities \in {_extract_entities(call.question)} :
              "Apple" \in SeqToSet(entities.players) =>
                \E result \in {Analysis(call.articles, call.question, entities,
                                        sweep.sentiment_ext)} :
                    /\ entities.comparison_type = NULL
                    /\ _determine_interest(call.question) = "technology"
                    /\ CountSents(RelevantSents(<<nlp[call.articles[1]]>>,
                                                entities), Released) = 1
                    /\ result.raised = NULL
                    /\ result.outcome = "True"
                    /\ result.confidence = 30

\* A sweep found one article for the Apple question, analysed it with
\* confidence 1.0 and stored the outcome True: of the search results of the
\* model only the snippet of the claim does that.
C20_Witness ==
    /\ sweep.last.id # 0
    /\ questions[sweep.last.id].question_text
          = "Will Apple launch iPhone 16 tomorrow?"
    /\ sweep.last.searched = 1
    /\ sweep.last.analysed
    /\ sweep.last.confidence = 30
    /\ sweep.last.counted
    /\ questions[sweep.last.id].outcome = "True"

\* C21: every confidence an analyzer returns lies in [0, 1] (0..30 in units
\* of 1/30), whatever the evidence sentences, also when the words around
\* the names are mostly negative.
C21_ConfidenceInUnitInterval ==
    (sweep.last.id # 0 /\ sweep.last.analysed)
        => sweep.last.confidence \in 0..30

\* C22: with the question and its entities fixed, one more article that
\* adds evidence never lowers the confidence the analyzer returns.
C22_ConfidenceMonotone ==
    (/\ sweep.pc = "analysed"
     /\ sweep.last.added > 0
     /\ sweep.last.before.raised = NULL
     /\ sweep.last.result.raised = NULL
     /\ Len(sweep.last.result.evidence) > Len(sweep.last.before.evidence))
        => sweep.last.result.confidence >= sweep.last.before.confidence

\* C23: the fallback question is deterministic: a second call of
\* _generate_fallback_question with the same topic and headlines, on the
\* same pools, returns the text the first call returned.
C23_FallbackDeterministic ==
    (gen.pc = "called" /\ gen.last.path = "fallback")
        => \A again \in _generate_fallback_question(gen.entities, gen.last.articles,
                                                    gen.last.interest) :
              again.raised = NULL /\ again.question = gen.last.question

\* C24: a question made from a template with both slots of a pair (player
\* and opponent_player, team and opponent) has two different values in
\* them, also when a name of the headlines is in both pools.
C24_PairValuesDiffer ==
    (gen.pc = "called" /\ gen.last.path = "validated")
        => \A pair \in {[main |-> "player", other |-> "opponent_player",
                        drawn |-> gen.last.players],
                       [main |-> "team", other |-> "opponent",
                        drawn |-> gen.last.teams]} :
              {pair.main, pair.other} \subseteq Fields(gen.last.template)
                 => /\ pair.drawn.chosen
                    /\ pair.drawn.first # pair.drawn.second
                    /\ str_in(pair.drawn.first, gen.last.question)
                    /\ str_in(pair.drawn.second, gen.last.question)

\* C24 witness: a validated question with a team and an opponent, the team
\* being a name of the headlines that is in both team pools.
C24_Witness ==
    /\ gen.pc = "called"
    /\ gen.last.path = "validated"
    /\ {"team", "opponent"} \subseteq Fields(gen.last.template)
    /\ gen.last.teams.chosen
    /\ gen.last.teams.first
          \in _extract_entities_from_articles(gen.last.articles).teams
    /\ gen.last.teams.first \in SeqToSet(gen.entities[gen.last.interest].team)
    /\ gen.last.teams.first \in SeqToSet(gen.entities[gen.last.interest].opponent)

\* C25: when the time reference of a question is the description of a
\* scheduled match, "in the <event> match on <date>", the team and the
\* opponent named in the question are the two teams of that match.
C25_FixtureTeamsUsed ==
    (/\ gen.pc = "called"
     /\ gen.last.path = "validated"
     /\ gen.last.interest \in DOMAIN self_event_dates)
        => \E event \in DOMAIN self_event_dates[gen.last.interest] :
             \E match_date \in DOMAIN self_event_dates[gen.last.interest][event].matches :
               LET teams == self_event_dates[gen.last.interest][event].matches[match_date]
               IN /\ endswith(gen.last.question,
                              " in the " \o event \o " match on " \o match_date \o "?")
                  /\ "team" \in Fields(gen.last.template)
                        => str_in(teams[1], gen.last.question)
                  /\ "opponent" \in Fields(gen.last.template)
                        => str_in(teams[2], gen.last.question)

\* C26: the comparison type of a question is assigned by fixed priority,
\* more_than > first > both > exact > none: the highest-priority type
\* whose pattern matches the question text, and none when no pattern
\* matches.
C26_ComparisonPriority ==
    sweep.pc \in {"extracted", "analysed"}
        => sweep.last.entities.comparison_type
             = IF re_search("more_than", sweep.last.question) THEN "more_than"
               ELSE IF re_search("first", sweep.last.question) THEN "first"
               ELSE IF re_search("both", sweep.last.question) THEN "both"
               ELSE IF re_search("exact", sweep.last.question) THEN "exact"
               ELSE NULL

\* C26 witness: the entities of a question matching the patterns of "first"
\* and of "both" but not of "more_than" have been extracted, with the
\* comparison type "first".
C26_Witness ==
    /\ sweep.pc = "extracted"
    /\ re_search("first", sweep.last.question)
    /\ re_search("both", sweep.last.question)
    /\ ~re_search("more_than", sweep.last.question)
    /\ sweep.last.entities.comparison_type = "first"

\* C27: for a launch/release question the technology analyzer applies the
\* precedence cancelled > released > delayed > announced to the status
\* words present in the relevant sentences of the evidence: a cancellation
\* word in any of them gives (false, 1.0); else a release word (true, 1.0);
\* else a delay word gives false; else an announcement word (true, 0.7).
C27_StatusPrecedence ==
    (/\ sweep.pc = "analysed"
     /\ \A i \in 1..Len(sweep.last.articles) : sweep.last.articles[i] # NULL
     /\ _determine_interest(sweep.last.question) = "technology"
     /\ AnyIn({"launch", "release"}, sweep.last.question)
     /\ ~AnyIn({"users", "customers", "downloads"}, sweep.last.question))
        => LET docs == [i \in 1..Len(sweep.last.articles) |-> nlp[sweep.last.articles[i]]]
               sents == RelevantSents(docs, sweep.last.entities)
               Present(words) == \E i \in 1..Len(sents) : AnyIn(words, sents[i].text)
               result == sweep.last.result
           IN IF Present({"cancelled", "scrapped"})
              THEN result.outcome = "False" /\ result.confidence = 30
              ELSE IF Present({"launched", "released", "available"})
              THEN result.outcome = "True" /\ result.confidence = 30
              ELSE IF Present({"delayed", "postponed"})
              THEN result.outcome = "False"
              ELSE Present({"announced", "unveiled", "revealed"})
                     => result.outcome = "True" /\ result.confidence = 21

\* C28: a name that holds the indicator of a team (or starts with a team
\* prefix) and the indicator of a tournament as well is ambiguous, and is
\* in none of the sets of players, teams and tournaments extracted from
\* the headlines.
C28_AmbiguousDropped ==
    gen.pc = "names"
        => \A name \in gen.last.names.players \cup gen.last.names.teams
                          \cup gen.last.names.tournaments :
              ~(/\ \/ \E indicator \in article_team_indicators : str_in(indicator, name)
                   \/ \E prefix \in team_prefixes : startswith(name, prefix)
                /\ \E indicator \in tournament_indicators : str_in(indicator, name))

\* C29: no extracted player, team or tournament begins with a word of the
\* stop-word set, whether the set holds the word as written in the
\* headline or in lower case.
C29_NoStopWordStart ==
    gen.pc = "names"
        => \A name \in gen.last.names.players \cup gen.last.names.teams
                          \cup gen.last.names.tournaments :
              /\ split(name)[1] \notin self_filter_words
              /\ str_lower(split(name)[1]) \notin self_filter_words

\* C30: for an interest without an event calendar generate_question never
\* returns a validated template question: every call ends in the except
\* clause, and either returns a fallback question with at most one source
\* link or is left by the exception the fallback raised.
C30_UnscheduledFallsBack ==
    (gen.pc = "called" /\ gen.last.interest \notin DOMAIN self_event_dates)
        => /\ gen.last.path \in {"fallback", "raised"}
           /\ gen.last.caught # NULL
           /\ gen.last.path = "fallback"
                => /\ gen.last.raised = NULL
                   /\ [raised |-> NULL, question |-> gen.last.question]
                        \in _generate_fallback_question(gen.entities, gen.last.articles,
                                                        gen.last.interest)
                   /\ Len(gen.last.sources) <= 1
           /\ gen.last.path = "raised"
                => gen.last.raised # NULL /\ gen.last.question = NULL

\* C30 witness: a technology call with two headlines, and so two source
\* links, has returned a fallback question with one link.
C30_Witness ==
    /\ gen.pc = "called"
    /\ gen.last.interest = "technology"
    /\ Len(gen.last.articles) = 2
    /\ gen.last.path = "fallback"
    /\ gen.last.caught = "UnboundLocalError"
    /\ Len(gen.last.sources) = 1

====
